---- MODULE Spec2Model ----
(***************************************************************************)
(* Astra: the architecture core of the web backend (component catalog,     *)
(* connection rules, cost calculator, graph synthesizer) and the carbon    *)
(* report of the dashboard backend.                                        *)
(*                                                                         *)
(* Number representation.  The Python code computes with floats; the model *)
(* computes with exact integers:                                           *)
(*   - multipliers are held in tenths (1.5 is 15);                         *)
(*   - availability percentages are held in thousandths (99.95 is 99950);  *)
(*   - unrounded money is held in 1/10000 dollar, money rounded to two     *)
(*     decimals is held in cents;                                          *)
(*   - round(x, n) is round-half-to-even on the exact value.               *)
(* Binary floating-point error below the rounding step is outside the      *)
(* model.                                                                  *)
(***************************************************************************)
EXTENDS Integers, Naturals, Sequences, FiniteSets, TLC

VARIABLES
    request,        \* the call being served: the function and its arguments
    pc,             \* "called" until the function has returned, then "returned"
    nodes,          \* generate: ArchitectureJson.nodes
    edges,          \* generate: ArchitectureJson.edges
    costEstimate,   \* generate, calculate_architecture_cost: [total, breakdown]
    ret,            \* the value returned by the other functions
    report,         \* generate_report: the CarbonReport
    catalog,        \* components_data.COMPONENTS, the module-level list
    rules,          \* ConnectionValidator.VALID_CONNECTIONS, the class-level dict
    drawn,          \* tokens drawn so far from the process-wide random source
    tasks,          \* concurrent calls of the core: each task's request and locals
    registry,       \* the carbon_registry collection: entry id -> document
    votes,          \* the registry_votes collection
    calls,          \* registry requests in flight: each call's position and locals
    green_users,    \* the green_users collection: user id -> document
    green_points,   \* the green_points collection of points transactions
    user_badges,    \* the user_badges collection
    chain,          \* the BlockchainService and what it has minted
    claims          \* incentive requests in flight: each call's position and locals

vars == << request, pc, nodes, edges, costEstimate, ret, report,
           catalog, rules, drawn, tasks, registry, votes, calls,
           green_users, green_points, user_badges, chain, claims >>

\* the state of one sequential call of the core
coreVars == << request, pc, nodes, edges, costEstimate, ret, report >>

\* the state shared by concurrent calls of the core, and the calls
sharedVars == << catalog, rules, drawn, tasks >>

\* the state of the registry and of the requests on it
registryVars == << registry, votes, calls >>

\* the state of the incentive collections, the chain and the requests on them
incentiveVars == << green_users, green_points, user_badges, chain, claims >>

----------------------------------------------------------------------------
(* Bounds of the model                                                      *)

\* longest component id list passed to generate
MaxIds == 3

\* longest node list of a carbon report request
MaxNodes == 2

\* longest id list drawn from the one-id-per-category pool
MaxCategoryIds == 2

\* concurrent calls of the core
MaxTasks == 2

\* points transactions in the green_points collection when a request that
\* adds one is still accepted
MaxTransactions == 2

\* badge records in the user_badges collection when a badge claim is still
\* accepted
MaxBadgeRecords == 2

\* distinct voters that vote on the submitted entry in one run
MaxVotes == 2

\* registry requests in flight at one time
MaxCalls == 2

----------------------------------------------------------------------------
(* Small helpers                                                            *)

Min(S) == CHOOSE x \in S : \A y \in S : x <= y

Max2(a, b) == IF a >= b THEN a ELSE b

\* round-half-to-even of n / d to an integer (d > 0), as Python's round
RoundHalfEven(n, d) ==
    LET q == n \div d
        r == n % d
    IN  IF 2 * r < d THEN q
        ELSE IF 2 * r > d THEN q + 1
        ELSE IF q % 2 = 0 THEN q ELSE q + 1

\* all sequences over S of length at most n
SeqsUpTo(S, n) == UNION { [1..k -> S] : k \in 0..n }

\* the orders in which a Python set with elements S may be iterated
SetIterationOrders(S) ==
    { f \in [1..Cardinality(S) -> S] :
        \A i, j \in 1..Cardinality(S) : i # j => f[i] # f[j] }

----------------------------------------------------------------------------
(* components_data.py                                                       *)

COMPONENTS ==
   << [id |-> "nextjs", name |-> "Next.js", category |-> "frontend", base_cost |-> 0],
      [id |-> "react", name |-> "React", category |-> "frontend", base_cost |-> 0],
      [id |-> "vue", name |-> "Vue.js", category |-> "frontend", base_cost |-> 0],
      [id |-> "angular", name |-> "Angular", category |-> "frontend", base_cost |-> 0],
      [id |-> "svelte", name |-> "Svelte", category |-> "frontend", base_cost |-> 0],
      [id |-> "fastapi", name |-> "FastAPI", category |-> "backend", base_cost |-> 0],
      [id |-> "django", name |-> "Django", category |-> "backend", base_cost |-> 0],
      [id |-> "flask", name |-> "Flask", category |-> "backend", base_cost |-> 0],
      [id |-> "nodejs", name |-> "Node.js", category |-> "backend", base_cost |-> 0],
      [id |-> "express", name |-> "Express.js", category |-> "backend", base_cost |-> 0],
      [id |-> "nestjs", name |-> "NestJS", category |-> "backend", base_cost |-> 0],
      [id |-> "springboot", name |-> "Spring Boot", category |-> "backend", base_cost |-> 0],
      [id |-> "golang", name |-> "Go/Gin", category |-> "backend", base_cost |-> 0],
      [id |-> "postgresql", name |-> "PostgreSQL", category |-> "database", base_cost |-> 25],
      [id |-> "mongodb", name |-> "MongoDB", category |-> "database", base_cost |-> 25],
      [id |-> "mysql", name |-> "MySQL", category |-> "database", base_cost |-> 20],
      [id |-> "redis", name |-> "Redis", category |-> "database", base_cost |-> 15],
      [id |-> "elasticsearch", name |-> "Elasticsearch", category |-> "database", base_cost |-> 40],
      [id |-> "cassandra", name |-> "Cassandra", category |-> "database", base_cost |-> 35],
      [id |-> "vercel", name |-> "Vercel", category |-> "hosting", base_cost |-> 20],
      [id |-> "netlify", name |-> "Netlify", category |-> "hosting", base_cost |-> 19],
      [id |-> "aws_ec2", name |-> "AWS EC2", category |-> "hosting", base_cost |-> 50],
      [id |-> "aws_lambda", name |-> "AWS Lambda", category |-> "hosting", base_cost |-> 10],
      [id |-> "gcp_compute", name |-> "GCP Compute Engine", category |-> "hosting", base_cost |-> 48],
      [id |-> "gcp_cloud_run", name |-> "Google Cloud Run", category |-> "hosting", base_cost |-> 12],
      [id |-> "azure_vm", name |-> "Azure VM", category |-> "hosting", base_cost |-> 52],
      [id |-> "heroku", name |-> "Heroku", category |-> "hosting", base_cost |-> 25],
      [id |-> "digitalocean", name |-> "DigitalOcean", category |-> "hosting", base_cost |-> 30],
      [id |-> "aws_s3", name |-> "AWS S3", category |-> "storage", base_cost |-> 5],
      [id |-> "gcp_storage", name |-> "Google Cloud Storage", category |-> "storage", base_cost |-> 5],
      [id |-> "azure_blob", name |-> "Azure Blob Storage", category |-> "storage", base_cost |-> 5],
      [id |-> "cloudinary", name |-> "Cloudinary", category |-> "storage", base_cost |-> 15],
      [id |-> "nginx", name |-> "Nginx", category |-> "infrastructure", base_cost |-> 0],
      [id |-> "kong", name |-> "Kong", category |-> "infrastructure", base_cost |-> 50],
      [id |-> "aws_alb", name |-> "AWS Application Load Balancer", category |-> "infrastructure", base_cost |-> 25],
      [id |-> "cloudflare", name |-> "Cloudflare", category |-> "infrastructure", base_cost |-> 20],
      [id |-> "auth0", name |-> "Auth0", category |-> "authentication", base_cost |-> 30],
      [id |-> "firebase_auth", name |-> "Firebase Auth", category |-> "authentication", base_cost |-> 10],
      [id |-> "cognito", name |-> "AWS Cognito", category |-> "authentication", base_cost |-> 15],
      [id |-> "clerk", name |-> "Clerk", category |-> "authentication", base_cost |-> 25],
      [id |-> "openai", name |-> "OpenAI API", category |-> "ai_ml", base_cost |-> 50],
      [id |-> "gemini", name |-> "Google Gemini", category |-> "ai_ml", base_cost |-> 30],
      [id |-> "anthropic", name |-> "Anthropic Claude", category |-> "ai_ml", base_cost |-> 45],
      [id |-> "huggingface", name |-> "Hugging Face", category |-> "ai_ml", base_cost |-> 25],
      [id |-> "aws_sagemaker", name |-> "AWS SageMaker", category |-> "ai_ml", base_cost |-> 100],
      [id |-> "rabbitmq", name |-> "RabbitMQ", category |-> "messaging", base_cost |-> 20],
      [id |-> "kafka", name |-> "Apache Kafka", category |-> "messaging", base_cost |-> 40],
      [id |-> "aws_sqs", name |-> "AWS SQS", category |-> "messaging", base_cost |-> 10],
      [id |-> "pubsub", name |-> "Google Pub/Sub", category |-> "messaging", base_cost |-> 12],
      [id |-> "datadog", name |-> "Datadog", category |-> "monitoring", base_cost |-> 60],
      [id |-> "newrelic", name |-> "New Relic", category |-> "monitoring", base_cost |-> 55],
      [id |-> "prometheus", name |-> "Prometheus", category |-> "monitoring", base_cost |-> 0],
      [id |-> "grafana", name |-> "Grafana", category |-> "monitoring", base_cost |-> 0],
      [id |-> "google_analytics", name |-> "Google Analytics", category |-> "analytics", base_cost |-> 0],
      [id |-> "mixpanel", name |-> "Mixpanel", category |-> "analytics", base_cost |-> 35],
      [id |-> "amplitude", name |-> "Amplitude", category |-> "analytics", base_cost |-> 40],
      [id |-> "github_actions", name |-> "GitHub Actions", category |-> "cicd", base_cost |-> 10],
      [id |-> "jenkins", name |-> "Jenkins", category |-> "cicd", base_cost |-> 0],
      [id |-> "circleci", name |-> "CircleCI", category |-> "cicd", base_cost |-> 15],
      [id |-> "gitlab_ci", name |-> "GitLab CI", category |-> "cicd", base_cost |-> 12],
      [id |-> "sendgrid", name |-> "SendGrid", category |-> "email", base_cost |-> 20],
      [id |-> "mailgun", name |-> "Mailgun", category |-> "email", base_cost |-> 18],
      [id |-> "ses", name |-> "AWS SES", category |-> "email", base_cost |-> 5],
      [id |-> "stripe", name |-> "Stripe", category |-> "payment", base_cost |-> 0],
      [id |-> "paypal", name |-> "PayPal", category |-> "payment", base_cost |-> 0],
      [id |-> "square", name |-> "Square", category |-> "payment", base_cost |-> 0],
      [id |-> "algolia", name |-> "Algolia", category |-> "search", base_cost |-> 30],
      [id |-> "meilisearch", name |-> "Meilisearch", category |-> "search", base_cost |-> 0],
      [id |-> "kubernetes", name |-> "Kubernetes", category |-> "infrastructure", base_cost |-> 70],
      [id |-> "docker", name |-> "Docker", category |-> "infrastructure", base_cost |-> 0] >>

\* the value a failed lookup returns
None == [id |-> "None", name |-> "None", category |-> "None", base_cost |-> 0]

\* mutant: the loop variable is returned after the loop, so a miss yields the
\* last catalog entry
get_component_by_id_ReturnsLast(component_id) ==
    LET hits == { i \in 1..Len(COMPONENTS) : COMPONENTS[i].id = component_id }
    IN  IF hits = {} THEN COMPONENTS[Len(COMPONENTS)] ELSE COMPONENTS[Min(hits)]

get_component_by_id(component_id) ==
    LET hits == { i \in 1..Len(COMPONENTS) : COMPONENTS[i].id = component_id }
    IN  IF hits = {} THEN None ELSE COMPONENTS[Min(hits)]

CatalogIds == { COMPONENTS[i].id : i \in 1..Len(COMPONENTS) }

----------------------------------------------------------------------------
(* connection_validator.py                                                  *)

VALID_CONNECTIONS ==
    { <<"frontend", "backend">>, <<"frontend", "authentication">>,
      <<"frontend", "hosting">>, <<"frontend", "infrastructure">>,
      <<"backend", "database">>, <<"backend", "storage">>,
      <<"backend", "authentication">>, <<"backend", "ai_ml">>,
      <<"backend", "messaging">>, <<"backend", "email">>,
      <<"backend", "payment">>, <<"backend", "search">>,
      <<"backend", "hosting">>,
      <<"infrastructure", "frontend">>, <<"infrastructure", "backend">>,
      <<"infrastructure", "database">>,
      <<"backend", "backend">>,
      <<"hosting", "backend">>, <<"hosting", "frontend">>,
      <<"database", "storage">>,
      <<"monitoring", "frontend">>, <<"monitoring", "backend">>,
      <<"monitoring", "database">>, <<"monitoring", "infrastructure">>,
      <<"monitoring", "hosting">>,
      <<"analytics", "frontend">>, <<"analytics", "backend">>,
      <<"cicd", "hosting">>, <<"cicd", "infrastructure">>,
      <<"backend", "messaging">>, <<"messaging", "backend">> }

is_valid_connection(source_category, target_category) ==
    <<source_category, target_category>> \in VALID_CONNECTIONS

\* mutant: the pair is unpacked the wrong way round
get_valid_targets_Reversed(source_category) ==
    { p[1] : p \in { c \in VALID_CONNECTIONS : c[2] = source_category } }

get_valid_targets(source_category) ==
    { p[2] : p \in { c \in VALID_CONNECTIONS : c[1] = source_category } }

\* mutant: filters on the source side, as get_valid_targets does
get_valid_sources_AsTargets(target_category) ==
    { p[2] : p \in { c \in VALID_CONNECTIONS : c[1] = target_category } }

get_valid_sources(target_category) ==
    { p[1] : p \in { c \in VALID_CONNECTIONS : c[2] = target_category } }

----------------------------------------------------------------------------
(* cost_calculator.py                                                       *)

\* multipliers in tenths
TRAFFIC_MULTIPLIERS == [l \in 1..5 |-> <<10, 15, 20, 30, 50>>[l]]

\* (threshold, multiplier) in list order; the last threshold is float('inf')
USER_TIERS ==
    << [inf |-> FALSE, threshold |-> 1000,    multiplier |-> 10],
       [inf |-> FALSE, threshold |-> 10000,   multiplier |-> 15],
       [inf |-> FALSE, threshold |-> 100000,  multiplier |-> 25],
       [inf |-> FALSE, threshold |-> 1000000, multiplier |-> 40],
       [inf |-> TRUE,  threshold |-> 0,       multiplier |-> 60] >>

\* dollars per GB in 1/10000 dollar: 0.023
DATA_COST_PER_GB == 230

REGION_MULTIPLIERS == [r \in 1..4 |-> <<10, 13, 15, 18>>[r]]

\* (tier, multiplier) in dict insertion order; tier in thousandths of a percent
AVAILABILITY_MULTIPLIERS ==
    << [tier |-> 99000, multiplier |-> 10],
       [tier |-> 99900, multiplier |-> 12],
       [tier |-> 99950, multiplier |-> 14],
       [tier |-> 99990, multiplier |-> 17],
       [tier |-> 99999, multiplier |-> 25] >>

\* mutant: users < threshold
UserTierMatches_Strict(users, t) == t.inf \/ users < t.threshold

\* users <= threshold
UserTierMatches(users, t) == t.inf \/ users <= t.threshold

get_user_multiplier(users) ==
    LET hits == { i \in 1..Len(USER_TIERS) : UserTierMatches(users, USER_TIERS[i]) }
    IN  IF hits = {} THEN 60 ELSE USER_TIERS[Min(hits)].multiplier

get_traffic_multiplier(traffic_level) ==
    IF traffic_level \in DOMAIN TRAFFIC_MULTIPLIERS
    THEN TRAFFIC_MULTIPLIERS[traffic_level] ELSE 20

\* mutant: the "regions >= 4" test is missing
get_region_multiplier_NoClamp(regions) ==
    IF regions \in DOMAIN REGION_MULTIPLIERS
    THEN REGION_MULTIPLIERS[regions] ELSE 10

get_region_multiplier(regions) ==
    IF regions >= 4 THEN 18
    ELSE IF regions \in DOMAIN REGION_MULTIPLIERS
         THEN REGION_MULTIPLIERS[regions] ELSE 10

\* mutant: availability < tier
get_availability_multiplier_Strict(availability) ==
    LET hits == { i \in 1..Len(AVAILABILITY_MULTIPLIERS) :
                    availability < AVAILABILITY_MULTIPLIERS[i].tier }
    IN  IF hits = {} THEN 25 ELSE AVAILABILITY_MULTIPLIERS[Min(hits)].multiplier

get_availability_multiplier(availability) ==
    LET hits == { i \in 1..Len(AVAILABILITY_MULTIPLIERS) :
                    availability <= AVAILABILITY_MULTIPLIERS[i].tier }
    IN  IF hits = {} THEN 25 ELSE AVAILABILITY_MULTIPLIERS[Min(hits)].multiplier

\* the "free tier" early return of calculate_component_cost
IsFreeTier(base_cost) == base_cost = 0

\* mutant: the data volume charge of database and storage is left out
ScaledCostRaw_NoDataCost(component, sc) ==
    LET base_cost         == component.base_cost
        user_mult         == get_user_multiplier(sc.users)
        traffic_mult      == get_traffic_multiplier(sc.trafficLevel)
        region_mult       == get_region_multiplier(sc.regions)
        availability_mult == get_availability_multiplier(sc.availability)
        category          == component.category
    IN  IF category \in {"database", "storage", "hosting", "infrastructure"}
        THEN base_cost * user_mult * traffic_mult * region_mult * availability_mult
        ELSE IF category \in {"monitoring", "analytics"}
        THEN base_cost * region_mult * availability_mult * 100
        ELSE base_cost * user_mult * traffic_mult * 100

\* the unrounded scaled cost in 1/10000 dollar
ScaledCostRaw(component, sc) ==
    LET base_cost         == component.base_cost
        user_mult         == get_user_multiplier(sc.users)
        traffic_mult      == get_traffic_multiplier(sc.trafficLevel)
        region_mult       == get_region_multiplier(sc.regions)
        availability_mult == get_availability_multiplier(sc.availability)
        category          == component.category
    IN  IF category \in {"database", "storage"}
        THEN base_cost * user_mult * traffic_mult * region_mult * availability_mult
             + sc.dataVolumeGB * DATA_COST_PER_GB
        ELSE IF category \in {"hosting", "infrastructure"}
        THEN base_cost * user_mult * traffic_mult * region_mult * availability_mult
        ELSE IF category \in {"ai_ml", "search"}
        THEN base_cost * user_mult * traffic_mult * 100
        ELSE IF category \in {"monitoring", "analytics"}
        THEN base_cost * region_mult * availability_mult * 100
        ELSE base_cost * user_mult * traffic_mult * 100

\* mutant: a free-tier component is still charged for the data volume
calculate_component_cost_FreeTierPaysData(component_id, sc) ==
    LET component == get_component_by_id(component_id)
    IN  IF component = None THEN [base_cost |-> 0, scaled_cost |-> 0]
        ELSE IF IsFreeTier(component.base_cost)
        THEN [base_cost |-> 0,
              scaled_cost |-> RoundHalfEven(sc.dataVolumeGB * DATA_COST_PER_GB, 100)]
        ELSE [base_cost   |-> component.base_cost * 100,
              scaled_cost |-> RoundHalfEven(ScaledCostRaw(component, sc), 100)]

\* returns (base_cost, scaled_cost), both in cents
calculate_component_cost(component_id, sc) ==
    LET component == get_component_by_id(component_id)
    IN  IF component = None THEN [base_cost |-> 0, scaled_cost |-> 0]
        ELSE IF IsFreeTier(component.base_cost)
        THEN [base_cost |-> 0, scaled_cost |-> 0]
        ELSE [base_cost   |-> component.base_cost * 100,
              scaled_cost |-> RoundHalfEven(ScaledCostRaw(component, sc), 100)]

\* mutant: total += base_cost
AddToTotal_BaseCost(total, cost) == total + cost.base_cost

\* total += scaled_cost
AddToTotal(total, cost) == total + cost.scaled_cost

\* mutant: the not-found check is missing
IsNotFound_Never(component) == FALSE

\* "if not component: continue" of the loop of calculate_architecture_cost
IsNotFound(component) == component = None

\* the loop of calculate_architecture_cost from position i on; total in cents
RECURSIVE ArchitectureCostLoop(_, _, _, _, _)
ArchitectureCostLoop(ids, sc, i, breakdown, total) ==
    IF i > Len(ids)
    THEN [total |-> RoundHalfEven(total * 100, 100), breakdown |-> breakdown]
    ELSE LET component == get_component_by_id(ids[i])
         IN  IF IsNotFound(component)
             THEN ArchitectureCostLoop(ids, sc, i + 1, breakdown, total)
             ELSE LET cost == calculate_component_cost(ids[i], sc)
                      entry == [category    |-> component.category,
                                component   |-> component.name,
                                componentId |-> ids[i],
                                baseCost    |-> cost.base_cost,
                                scaledCost  |-> cost.scaled_cost]
                  IN  ArchitectureCostLoop(ids, sc, i + 1,
                                           Append(breakdown, entry),
                                           AddToTotal(total, cost))

\* mutant: the loop runs over component_ids[1:]
calculate_architecture_cost_SkipsFirst(ids, sc) ==
    ArchitectureCostLoop(ids, sc, 2, <<>>, 0)

calculate_architecture_cost(ids, sc) ==
    ArchitectureCostLoop(ids, sc, 1, <<>>, 0)

----------------------------------------------------------------------------
(* architecture_service.py                                                  *)

HORIZONTAL_SPACING == 300
VERTICAL_SPACING == 150
START_X == 100
START_Y == 100

CATEGORY_LAYERS ==
    [c \in {"frontend", "infrastructure", "backend", "authentication",
            "database", "storage", "messaging", "search", "ai_ml", "email",
            "payment", "hosting", "monitoring", "analytics", "cicd"} |->
        CASE c = "frontend" -> 0
          [] c = "infrastructure" -> 1
          [] c \in {"backend", "authentication"} -> 2
          [] c \in {"database", "storage", "messaging", "search", "ai_ml",
                    "email", "payment"} -> 3
          [] c = "hosting" -> 4
          [] c \in {"monitoring", "analytics"} -> 5
          [] c = "cicd" -> 6]

\* CATEGORY_LAYERS.get(category, 3)
LayerOf(category) ==
    IF category \in DOMAIN CATEGORY_LAYERS THEN CATEGORY_LAYERS[category] ELSE 3

\* secrets.token_urlsafe(6)[:8] of the k-th draw of a call: 48 random bits;
\* two draws of one call are taken to differ
Token(k) == k

\* mutant: the node id carries no random suffix
generate_node_id_NoSuffix(component_id, k) == [componentId |-> component_id, suffix |-> 0]

generate_node_id(component_id, k) == [componentId |-> component_id, suffix |-> Token(k)]

\* mutant: layer and index are taken the wrong way round
calculate_node_position_Swapped(layer, index_in_layer) ==
    [x |-> START_X + index_in_layer * HORIZONTAL_SPACING,
     y |-> START_Y + layer * VERTICAL_SPACING]

calculate_node_position(layer, index_in_layer) ==
    [x |-> START_X + layer * HORIZONTAL_SPACING,
     y |-> START_Y + index_in_layer * VERTICAL_SPACING]

\* the Node of a component known to the catalog; k is the token draw
create_node_from_component(component_id, position, k) ==
    LET component == get_component_by_id(component_id)
    IN  [id       |-> generate_node_id(component_id, k),
         position |-> position,
         data     |-> [label       |-> component.name,
                       componentId |-> component_id,
                       category    |-> component.category]]

\* "if not component: continue" of the first loop of generate
IsSkipped(component) == component = None

\* first loop of generate: the ids of a layer, in input order
RECURSIVE LayerMembers(_, _)
LayerMembers(ids, layer) ==
    IF ids = <<>> THEN <<>>
    ELSE LET component == get_component_by_id(Head(ids))
         IN  IF IsSkipped(component)
             THEN LayerMembers(Tail(ids), layer)
             ELSE IF LayerOf(component.category) = layer
                  THEN <<Head(ids)>> \o LayerMembers(Tail(ids), layer)
                  ELSE LayerMembers(Tail(ids), layer)

\* the keys of the layers dict
LayerKeys(ids) == { l \in 0..6 : LayerMembers(ids, l) # <<>> }

\* mutant: the index in the layer is counted from the end of the layer's list
LayerNodes_Reversed(members, layer, made) ==
    [idx \in 1..Len(members) |->
        IF get_component_by_id(members[idx]) = None
        THEN None
        ELSE create_node_from_component(
                 members[idx], calculate_node_position(layer, Len(members) - idx),
                 made + idx)]

\* mutant: enumerate(components_in_layer, 1)
LayerNodes_OneBased(members, layer, made) ==
    [idx \in 1..Len(members) |->
        IF get_component_by_id(members[idx]) = None
        THEN None
        ELSE create_node_from_component(
                 members[idx], calculate_node_position(layer, idx), made + idx)]

\* the nodes of one layer; made nodes have been created before
LayerNodes(members, layer, made) ==
    [idx \in 1..Len(members) |->
        IF get_component_by_id(members[idx]) = None
        THEN None
        ELSE create_node_from_component(
                 members[idx], calculate_node_position(layer, idx - 1), made + idx)]

\* second loop of generate: for layer_num in sorted(layers.keys())
RECURSIVE CreateNodes(_, _, _)
CreateNodes(ids, keys, acc) ==
    IF keys = {} THEN acc
    ELSE LET layer_num == Min(keys)
             made == LayerNodes(LayerMembers(ids, layer_num), layer_num, Len(acc))
         IN  CreateNodes(ids, keys \ {layer_num},
                         acc \o SelectSeq(made, LAMBDA n : n # None))

\* nodes_by_category[category] of generate_edges
NodesByCategory(ns, category) ==
    SelectSeq(ns, LAMBDA n : n.data.category = category)

\* the keys of nodes_by_category
CategoriesPresent(ns) == { ns[i].data.category : i \in 1..Len(ns) }

\* the target categories of a source node that pass "not in nodes_by_category"
TargetsPresent(ns, source_node) ==
    { c \in get_valid_targets(source_node.data.category) : c \in CategoriesPresent(ns) }

\* mutant: target_nodes[-1]
TargetNode_Last(ns, target_category) ==
    NodesByCategory(ns, target_category)[Len(NodesByCategory(ns, target_category))]

\* the node an edge toward target_category ends at
TargetNode(ns, target_category) == NodesByCategory(ns, target_category)[1]

\* the Edge from source_node to target_node, without its id
MakeEdge(source_node, target_node) ==
    [source       |-> source_node.id,
     target       |-> target_node.id,
     sourceHandle |-> IF source_node.position.x < target_node.position.x
                      THEN "right" ELSE "bottom",
     targetHandle |-> IF source_node.position.x < target_node.position.x
                      THEN "left" ELSE "top"]

\* inner loop of generate_edges for one source: order is the order in which
\* the set valid_targets is iterated, restricted to the categories present
SourceEdges(ns, source_node, order) ==
    [k \in 1..Len(order) |-> MakeEdge(source_node, TargetNode(ns, order[k]))]

\* the iteration orders generate_edges may see, one per source node from i on
RECURSIVE EdgeOrders(_, _)
EdgeOrders(ns, i) ==
    IF i > Len(ns) THEN { <<>> }
    ELSE { <<o>> \o rest : o \in SetIterationOrders(TargetsPresent(ns, ns[i])),
                           rest \in EdgeOrders(ns, i + 1) }

RECURSIVE EdgesFrom(_, _, _)
EdgesFrom(ns, orders, i) ==
    IF i > Len(ns) THEN <<>>
    ELSE SourceEdges(ns, ns[i], orders[i]) \o EdgesFrom(ns, orders, i + 1)

\* generate_edges under the given iteration orders; the k-th edge takes the
\* k-th token drawn after those of the nodes
generate_edges(ns, orders) ==
    LET es == EdgesFrom(ns, orders, 1)
    IN  [k \in 1..Len(es) |->
            [id           |-> [prefix |-> "e", suffix |-> Token(Len(ns) + k)],
             source       |-> es[k].source,
             target       |-> es[k].target,
             sourceHandle |-> es[k].sourceHandle,
             targetHandle |-> es[k].targetHandle]]

\* the nodes generate creates for a list of ids
GenerateNodes(ids) == CreateNodes(ids, LayerKeys(ids), <<>>)

----------------------------------------------------------------------------
(* carbon_service.py                                                        *)

\* gCO2/kWh
REGION_CARBON_INTENSITY ==
    [r \in {"us-east-1", "us-east-2", "us-west-1", "us-west-2", "eu-west-1",
            "eu-west-2", "eu-central-1", "eu-north-1", "ap-southeast-1",
            "ap-northeast-1", "ap-south-1", "sa-east-1", "ca-central-1",
            "us-central1", "us-east4", "europe-west1", "europe-north1",
            "asia-east1", "eastus", "westus", "westeurope", "northeurope",
            "default"} |->
        CASE r = "us-east-1" -> 379 [] r = "us-east-2" -> 531
          [] r = "us-west-1" -> 210 [] r = "us-west-2" -> 102
          [] r = "eu-west-1" -> 296 [] r = "eu-west-2" -> 228
          [] r = "eu-central-1" -> 338 [] r = "eu-north-1" -> 8
          [] r = "ap-southeast-1" -> 431 [] r = "ap-northeast-1" -> 465
          [] r = "ap-south-1" -> 708 [] r = "sa-east-1" -> 61
          [] r = "ca-central-1" -> 120 [] r = "us-central1" -> 440
          [] r = "us-east4" -> 379 [] r = "europe-west1" -> 80
          [] r = "europe-north1" -> 8 [] r = "asia-east1" -> 509
          [] r = "eastus" -> 379 [] r = "westus" -> 210
          [] r = "westeurope" -> 296 [] r = "northeurope" -> 296
          [] r = "default" -> 400]

\* Watts
COMPONENT_POWER_DRAW ==
    [c \in {"backend", "frontend", "database", "hosting", "ml", "auth",
            "cache", "queue", "storage", "cicd", "monitoring", "search"} |->
        CASE c = "backend" -> 50 [] c = "frontend" -> 5
          [] c = "database" -> 80 [] c = "hosting" -> 60
          [] c = "ml" -> 300 [] c = "auth" -> 10
          [] c = "cache" -> 30 [] c = "queue" -> 25
          [] c = "storage" -> 15 [] c = "cicd" -> 20
          [] c = "monitoring" -> 10 [] c = "search" -> 60]

\* mutant: the lookup misses every region and takes the default
CarbonIntensity_AlwaysDefault(r) == REGION_CARBON_INTENSITY["default"]

\* REGION_CARBON_INTENSITY.get(region, REGION_CARBON_INTENSITY["default"])
CarbonIntensity(r) ==
    IF r \in DOMAIN REGION_CARBON_INTENSITY
    THEN REGION_CARBON_INTENSITY[r] ELSE REGION_CARBON_INTENSITY["default"]

\* COMPONENT_POWER_DRAW.get(category, 30.0)
PowerDraw(category) ==
    IF category \in DOMAIN COMPONENT_POWER_DRAW
    THEN COMPONENT_POWER_DRAW[category] ELSE 30

\* math.log10(n) for n a power of ten, the only arguments the model passes
RECURSIVE Log10(_)
Log10(n) == IF n < 10 THEN 0 ELSE 1 + Log10(n \div 10)

\* "if category == 'ml'": the factor is traffic_mul = trafficLevel / 3,
\* otherwise 1; returned in thirds
MlFactor3(category, trafficLevel) == IF category = "ml" THEN trafficLevel ELSE 3

\* scaled_power of a node in 1/36 W:
\*   power_draw * max(traffic_mul, 0.5) * max(user_mul, 0.5) [* traffic_mul]
\* with traffic_mul = trafficLevel / 3 and user_mul = log10(users + 1) / 2
ScaledPower36(category, sc) ==
    PowerDraw(category)
      * Max2(2 * sc.trafficLevel, 3)
      * Max2(Log10(sc.users + 1), 1)
      * MlFactor3(category, sc.trafficLevel)

\* round-half-to-even of a * b / d where a * b may exceed 32 bits
MulDivRound(a, b, d) ==
    LET whole == (a \div d) * b + ((a % d) * b) \div d
        r     == ((a % d) * b) % d
    IN  IF 2 * r < d THEN whole
        ELSE IF 2 * r > d THEN whole + 1
        ELSE IF whole % 2 = 0 THEN whole ELSE whole + 1

\* energy_kwh = scaled_power * 730 / 1000, rounded to 4 decimals, in 1/10000 kWh
EnergyKwh4(power36) == RoundHalfEven(power36 * 1825, 9)

\* carbon_kg = energy_kwh * carbon_intensity / 1000, rounded to 4 decimals,
\* in 1/10000 kg
CarbonKg4(power36, carbon_intensity) == MulDivRound(power36, 73 * carbon_intensity, 360)

\* the ComponentCarbon entry of a node
ComponentCarbon(node, sc, carbon_intensity) ==
    LET power36 == ScaledPower36(node.data.category, sc)
    IN  [component_id     |-> node.data.componentId,
         component_name   |-> node.data.label,
         category         |-> node.data.category,
         energy_kwh       |-> EnergyKwh4(power36),
         carbon_kg        |-> CarbonKg4(power36, carbon_intensity),
         power_draw_watts |-> RoundHalfEven(power36 * 100, 36)]

\* the sum of scaled_power over the nodes from i on, in 1/36 W; total_energy
\* and total_carbon are this sum times a constant
RECURSIVE TotalPower36(_, _, _)
TotalPower36(ns, sc, i) ==
    IF i > Len(ns) THEN 0
    ELSE ScaledPower36(ns[i].data.category, sc) + TotalPower36(ns, sc, i + 1)

\* app.services.cost_calculator.calculate_costs of the dashboard backend:
\* the total of the cost model over the nodes' components, in cents
calculate_costs(ns, sc) ==
    calculate_architecture_cost([i \in 1..Len(ns) |-> ns[i].data.componentId], sc).total

\* the CarbonReport; report_id (a uuid4), created_at (the clock) and user_id
\* (passed through) carry no computed value and are left out
\* mutant: total_energy and total_carbon are assigned, not accumulated
generate_report_TotalsAssigned(arch, r) ==
    LET carbon_intensity == CarbonIntensity(r)
        n == Len(arch.nodes)
        total36 == IF n = 0 THEN 0 ELSE ScaledPower36(arch.nodes[n].data.category, arch.scope)
    IN  [metrics |->
            [energy_kwh       |-> EnergyKwh4(total36),
             carbon_kg        |-> CarbonKg4(total36, carbon_intensity),
             carbon_intensity |-> carbon_intensity,
             region           |-> r,
             cost_usd         |-> calculate_costs(arch.nodes, arch.scope)],
         architecture_json |-> arch,
         component_breakdown |->
            [i \in 1..Len(arch.nodes) |->
                ComponentCarbon(arch.nodes[i], arch.scope, carbon_intensity)]]

generate_report(arch, r) ==
    LET carbon_intensity == CarbonIntensity(r)
        total36 == TotalPower36(arch.nodes, arch.scope, 1)
    IN  [metrics |->
            [energy_kwh       |-> EnergyKwh4(total36),
             carbon_kg        |-> CarbonKg4(total36, carbon_intensity),
             carbon_intensity |-> carbon_intensity,
             region           |-> r,
             cost_usd         |-> calculate_costs(arch.nodes, arch.scope)],
         architecture_json |-> arch,
         component_breakdown |->
            [i \in 1..Len(arch.nodes) |->
                ComponentCarbon(arch.nodes[i], arch.scope, carbon_intensity)]]

----------------------------------------------------------------------------
(* Inputs the model draws from                                              *)

\* ids passed to generate: catalog ids of several categories, two of one
\* category, and an id the catalog does not know
IdPool == {"nextjs", "fastapi", "django", "postgresql", "aws_s3", "datadog",
           "no_such_component"}

IdLists == SeqsUpTo(IdPool, MaxIds)

\* one catalog id of each of the 15 categories
CategoryIdPool ==
    {"react", "nginx", "express", "auth0", "mysql", "gcp_storage", "kafka",
     "algolia", "gemini", "sendgrid", "stripe", "vercel", "newrelic",
     "mixpanel", "github_actions"}

CategoryIdLists == SeqsUpTo(CategoryIdPool, MaxCategoryIds)

\* Scope() with the defaults of models/architecture.py
DefaultScope == [users |-> 1000, trafficLevel |-> 3, dataVolumeGB |-> 100,
                 regions |-> 1, availability |-> 99900]

\* scopes passed to generate and calculate_architecture_cost
ScopeSamples ==
    { DefaultScope,
      [users |-> 1001, trafficLevel |-> 1, dataVolumeGB |-> 0,
       regions |-> 2, availability |-> 99000],
      [users |-> 10000000, trafficLevel |-> 5, dataVolumeGB |-> 3,
       regions |-> 4, availability |-> 99999],
      [users |-> 50000, trafficLevel |-> 4, dataVolumeGB |-> 7,
       regions |-> 3, availability |-> 99950] }

\* scopes whose fields lie outside the documented ranges
EdgeScopes ==
    { [users |-> 0, trafficLevel |-> 0, dataVolumeGB |-> 0,
       regions |-> 0, availability |-> 0],
      [users |-> -3, trafficLevel |-> 6, dataVolumeGB |-> 1,
       regions |-> -1, availability |-> 100000],
      [users |-> 2000000000, trafficLevel |-> -1, dataVolumeGB |-> 100,
       regions |-> 7, availability |-> 99991] }

\* traffic levels passed to get_traffic_multiplier
TrafficSamples == -1..7

\* region counts passed to get_region_multiplier
RegionSamples == -2..6

\* availabilities passed to get_availability_multiplier, in thousandths
AvailabilitySamples ==
    {0, 98000, 99000, 99001, 99500, 99900, 99901, 99950, 99951, 99990,
     99991, 99999, 100000, 100001}

\* scopes passed to calculate_component_cost
ScopeGrid ==
    [users : {1000, 1001, 10000000}, trafficLevel : {1, 3, 5},
     dataVolumeGB : {0, 100}, regions : {1, 2, 4},
     availability : {99000, 99900, 100000}]

\* ids passed to calculate_component_cost
CostIds == CatalogIds \cup {"no_such_component"}

\* user counts passed to get_user_multiplier
UserSamples == {0, 1, 999, 1000, 1001, 9999, 10000, 10001, 99999, 100000,
                100001, 999999, 1000000, 1000001, 10000000}

\* categories passed to the connection validator: those of the catalog and
\* two names no rule mentions
Categories == DOMAIN CATEGORY_LAYERS \cup {"cache", "no_such_category"}

\* nodes of a carbon report request: the architecture is client-supplied, so
\* a node may carry any category, also one no table lists
CarbonNodePool ==
    { [data |-> [componentId |-> "fastapi", label |-> "FastAPI", category |-> "backend"]],
      [data |-> [componentId |-> "nextjs", label |-> "Next.js", category |-> "frontend"]],
      [data |-> [componentId |-> "postgresql", label |-> "PostgreSQL", category |-> "database"]],
      [data |-> [componentId |-> "openai", label |-> "OpenAI API", category |-> "ai_ml"]],
      [data |-> [componentId |-> "custom_model", label |-> "Custom model", category |-> "ml"]] }

\* scopes of a carbon report request; users + 1 is a power of ten
CarbonScopes ==
    { [users |-> u, trafficLevel |-> t, dataVolumeGB |-> 100, regions |-> 1,
       availability |-> 99900] : u \in {0, 9, 999, 999999}, t \in 1..5 }

CarbonRegions == {"eu-north-1", "ap-south-1", "us-east-1", "no-such-region"}

----------------------------------------------------------------------------
(* incentive_service.py: calculate_sustainability_score. Carbon is in whole *)
(* kg, the score in tenths of a point, carbon_saved_kg and energy_saved_kwh *)
(* in 1/10000; an Optional argument is << >> for None and << x >> for x      *)

\* "if previous_carbon_kg and previous_carbon_kg > 0" and "if reduction_pct > 0"
CarbonReduced(current_carbon_kg, previous_carbon_kg) ==
    /\ previous_carbon_kg # << >>
    /\ previous_carbon_kg[1] > 0
    /\ previous_carbon_kg[1] - current_carbon_kg > 0

\* carbon_score = min(60, reduction_pct * 1.2), in tenths of a point times
\* previous_carbon_kg
CarbonScore(current_carbon_kg, previous_carbon_kg) ==
    Min({600 * previous_carbon_kg,
         (previous_carbon_kg - current_carbon_kg) * 1200})

\* int(reduction_pct * 5)
ReductionPoints(current_carbon_kg, previous_carbon_kg) ==
    ((previous_carbon_kg - current_carbon_kg) * 500) \div previous_carbon_kg

\* REGION_CARBON_INTENSITY.get(region, 400)
RegionIntensity(region) ==
    IF region \in DOMAIN REGION_CARBON_INTENSITY
    THEN REGION_CARBON_INTENSITY[region] ELSE 400

\* "Region scoring (0-25 points)": added to the score and to the green points
RegionScore(current_intensity) ==
    IF current_intensity <= 100 THEN 25
    ELSE IF current_intensity <= 250 THEN 15
    ELSE IF current_intensity <= 400 THEN 5
    ELSE 0

\* "Region improvement bonus", green points only
RegionBonus(current_intensity, previous_region) ==
    IF previous_region = << >> THEN 0
    ELSE LET prev_intensity == RegionIntensity(previous_region[1])
         IN  IF current_intensity < prev_intensity
             THEN Min({15, (prev_intensity - current_intensity) \div 20})
             ELSE 0

\* the improvements list, each message by its kind
Improvements(reduced, current_intensity, previous_region) ==
    (IF reduced THEN << "carbon_reduced" >> ELSE << >>)
      \o (IF current_intensity <= 100 THEN << "very_low_carbon_region" >>
          ELSE IF current_intensity <= 250 THEN << "low_carbon_region" >>
          ELSE << >>)
      \o (IF previous_region # << >>
             /\ current_intensity < RegionIntensity(previous_region[1])
          THEN << "greener_region" >> ELSE << >>)

calculate_sustainability_score(current_carbon_kg, previous_carbon_kg, region, previous_region) ==
    LET reduced == CarbonReduced(current_carbon_kg, previous_carbon_kg)
        d == IF reduced THEN previous_carbon_kg[1] ELSE 1
        carbon_score == IF reduced THEN CarbonScore(current_carbon_kg, d) ELSE 0
        carbon_saved == IF reduced THEN d - current_carbon_kg ELSE 0
        current_intensity == RegionIntensity(region)
        score == RoundHalfEven(
                     (150 + 10 * RegionScore(current_intensity)) * d + carbon_score, d)
    IN  [score |-> Min({1000, score}),
         carbon_saved_kg |-> carbon_saved * 10000,
         energy_saved_kwh |-> carbon_saved * 25000,
         green_points |->
             10 + (IF reduced
                   THEN ReductionPoints(current_carbon_kg, d) ELSE 0)
                + RegionScore(current_intensity)
                + RegionBonus(current_intensity, previous_region),
         improvements |-> Improvements(reduced, current_intensity, previous_region)]

\* the score requests of the sequential calls
ScoreRegions == {"us-east-1", "eu-north-1", "us-west-1", "ap-south-1", "nowhere"}

ScoreRequests ==
    [fn : {"calculate_sustainability_score"},
     current_carbon_kg : {0, 50, 75, 90, 100, 150, 180},
     previous_carbon_kg : {<< >>, << 0 >>, << 100 >>, << 200 >>},
     region : ScoreRegions,
     previous_region : {<< >>, << "ap-south-1" >>, << "eu-north-1" >>}]

----------------------------------------------------------------------------
(* The calls the model serves                                               *)

Requests ==
    [fn : {"generate_architecture_from_components", "calculate_architecture_cost"},
     component_ids : IdLists, scope : ScopeSamples]
    \cup [fn : {"generate_architecture_from_components"},
          component_ids : CategoryIdLists, scope : {DefaultScope}]
    \cup [fn : {"calculate_component_cost"}, component_id : CostIds, scope : ScopeGrid]
    \cup [fn : {"generate_architecture_from_components", "calculate_architecture_cost"},
          component_ids : SeqsUpTo(IdPool, 1), scope : EdgeScopes]
    \cup [fn : {"calculate_component_cost"}, component_id : CostIds, scope : EdgeScopes]
    \cup [fn : {"get_user_multiplier"}, users : UserSamples]
    \cup [fn : {"get_traffic_multiplier"}, traffic_level : TrafficSamples]
    \cup [fn : {"get_region_multiplier"}, regions : RegionSamples]
    \cup [fn : {"get_availability_multiplier"}, availability : AvailabilitySamples]
    \cup [fn : {"ConnectionValidator"},
          source_category : Categories, target_category : Categories]
    \cup [fn : {"generate_report"},
          architecture_json : [nodes : SeqsUpTo(CarbonNodePool, MaxNodes),
                               scope : CarbonScopes],
          region : CarbonRegions]
    \cup ScoreRequests

NoCost == [total |-> 0, breakdown |-> <<>>]

NoReport == [metrics |-> [energy_kwh |-> 0, carbon_kg |-> 0,
                          carbon_intensity |-> 0, region |-> "none",
                          cost_usd |-> 0],
             architecture_json |-> [nodes |-> <<>>, scope |-> DefaultScope],
             component_breakdown |-> <<>>]

NoRet == [none |-> TRUE]

\* the module-level tables as loaded at import; no concurrent call in progress
SharedIdle ==
    /\ catalog = COMPONENTS
    /\ rules = VALID_CONNECTIONS
    /\ drawn = 0
    /\ tasks = <<>>

\* no incentive collection in use, no chain configured
IncentiveIdle ==
    /\ green_users = << >>
    /\ green_points = {}
    /\ user_badges = {}
    /\ chain = [is_available |-> FALSE, minted |-> 0, badges |-> 0]
    /\ claims = << >>

\* no registry collection in use
RegistryIdle ==
    /\ registry = <<>>
    /\ votes = {}
    /\ calls = <<>>

\* a call has arrived; every function of the core is stateless, so a call
\* starts from the same state whatever was served before
Init ==
    /\ request \in Requests
    /\ pc = "called"
    /\ nodes = <<>>
    /\ edges = <<>>
    /\ costEstimate = NoCost
    /\ ret = NoRet
    /\ report = NoReport
    /\ SharedIdle
    /\ RegistryIdle
    /\ IncentiveIdle

\* ArchitectureService.generate_architecture_from_components(component_ids, scope)
GenerateArchitecture ==
    /\ pc = "called"
    /\ request.fn = "generate_architecture_from_components"
    /\ LET ns == GenerateNodes(request.component_ids)
       IN  \E orders \in EdgeOrders(ns, 1) :
               /\ nodes' = ns
               /\ edges' = generate_edges(ns, orders)
    /\ costEstimate' = calculate_architecture_cost(request.component_ids, request.scope)
    /\ pc' = "returned"
    /\ UNCHANGED << request, ret, report >>
    /\ UNCHANGED << sharedVars, registryVars, incentiveVars >>

\* CostCalculator.calculate_architecture_cost(component_ids, scope)
CalculateArchitectureCost ==
    /\ pc = "called"
    /\ request.fn = "calculate_architecture_cost"
    /\ costEstimate' = calculate_architecture_cost(request.component_ids, request.scope)
    /\ pc' = "returned"
    /\ UNCHANGED << request, nodes, edges, ret, report >>
    /\ UNCHANGED << sharedVars, registryVars, incentiveVars >>

\* CostCalculator.calculate_component_cost(component_id, scope)
CalculateComponentCost ==
    /\ pc = "called"
    /\ request.fn = "calculate_component_cost"
    /\ ret' = calculate_component_cost(request.component_id, request.scope)
    /\ pc' = "returned"
    /\ UNCHANGED << request, nodes, edges, costEstimate, report >>
    /\ UNCHANGED << sharedVars, registryVars, incentiveVars >>

\* CostCalculator.get_user_multiplier(users)
GetUserMultiplier ==
    /\ pc = "called"
    /\ request.fn = "get_user_multiplier"
    /\ ret' = get_user_multiplier(request.users)
    /\ pc' = "returned"
    /\ UNCHANGED << request, nodes, edges, costEstimate, report >>
    /\ UNCHANGED << sharedVars, registryVars, incentiveVars >>

\* CostCalculator.get_traffic_multiplier(traffic_level)
GetTrafficMultiplier ==
    /\ pc = "called"
    /\ request.fn = "get_traffic_multiplier"
    /\ ret' = get_traffic_multiplier(request.traffic_level)
    /\ pc' = "returned"
    /\ UNCHANGED << request, nodes, edges, costEstimate, report >>
    /\ UNCHANGED << sharedVars, registryVars, incentiveVars >>

\* CostCalculator.get_region_multiplier(regions)
GetRegionMultiplier ==
    /\ pc = "called"
    /\ request.fn = "get_region_multiplier"
    /\ ret' = get_region_multiplier(request.regions)
    /\ pc' = "returned"
    /\ UNCHANGED << request, nodes, edges, costEstimate, report >>
    /\ UNCHANGED << sharedVars, registryVars, incentiveVars >>

\* CostCalculator.get_availability_multiplier(availability)
GetAvailabilityMultiplier ==
    /\ pc = "called"
    /\ request.fn = "get_availability_multiplier"
    /\ ret' = get_availability_multiplier(request.availability)
    /\ pc' = "returned"
    /\ UNCHANGED << request, nodes, edges, costEstimate, report >>
    /\ UNCHANGED << sharedVars, registryVars, incentiveVars >>

\* ConnectionValidator: the three queries about one pair of categories
QueryConnection ==
    /\ pc = "called"
    /\ request.fn = "ConnectionValidator"
    /\ ret' = [is_valid_connection |->
                   is_valid_connection(request.source_category, request.target_category),
               get_valid_targets |-> get_valid_targets(request.source_category),
               get_valid_sources |-> get_valid_sources(request.target_category)]
    /\ pc' = "returned"
    /\ UNCHANGED << request, nodes, edges, costEstimate, report >>
    /\ UNCHANGED << sharedVars, registryVars, incentiveVars >>

\* CarbonService.generate_report(architecture_json, region)
GenerateReport ==
    /\ pc = "called"
    /\ request.fn = "generate_report"
    /\ report' = generate_report(request.architecture_json, request.region)
    /\ pc' = "returned"
    /\ UNCHANGED << request, nodes, edges, costEstimate, ret >>
    /\ UNCHANGED << sharedVars, registryVars, incentiveVars >>

\* IncentiveService.calculate_sustainability_score
CalculateSustainabilityScore ==
    /\ pc = "called"
    /\ request.fn = "calculate_sustainability_score"
    /\ ret' = calculate_sustainability_score(
                  request.current_carbon_kg, request.previous_carbon_kg,
                  request.region, request.previous_region)
    /\ pc' = "returned"
    /\ UNCHANGED << request, nodes, edges, costEstimate, report >>
    /\ UNCHANGED << sharedVars, registryVars, incentiveVars >>

Next ==
    \/ GenerateArchitecture
    \/ CalculateArchitectureCost
    \/ CalculateComponentCost
    \/ GetUserMultiplier
    \/ GetTrafficMultiplier
    \/ GetRegionMultiplier
    \/ GetAvailabilityMultiplier
    \/ QueryConnection
    \/ GenerateReport
    \/ CalculateSustainabilityScore

Spec == Init /\ [][Next]_vars

----------------------------------------------------------------------------
(* Concurrent calls of the core: threads of one process, each running one   *)
(* call, interleaved between the statements that read the shared tables     *)

Tasks == 1..MaxTasks

ConcurrentIdLists ==
    { <<"nextjs", "fastapi", "postgresql">>,
      <<"django", "fastapi">>,
      <<"no_such_component", "datadog">> }

ConcurrentRequests ==
    [fn : {"generate_architecture_from_components"},
     component_ids : ConcurrentIdLists, scope : {DefaultScope}]
    \cup [fn : {"calculate_architecture_cost"},
          component_ids : { <<"postgresql", "datadog">> }, scope : {DefaultScope}]
    \cup [fn : {"calculate_component_cost"},
          component_id : {"postgresql"}, scope : {DefaultScope}]
    \cup [fn : {"ConnectionValidator"},
          source_category : {"frontend"}, target_category : {"backend"}]

\* a call that has arrived, with the locals of its frame still empty
NewTask(r) ==
    [request |-> r, pc |-> "called", layers |-> <<>>, nodes |-> <<>>,
     edges |-> <<>>, costEstimate |-> NoCost, ret |-> NoRet]

\* no sequential call is being served
CoreIdle ==
    /\ request = [fn |-> "none"]
    /\ pc = "idle"
    /\ nodes = <<>>
    /\ edges = <<>>
    /\ costEstimate = NoCost
    /\ ret = NoRet
    /\ report = NoReport

InitConcurrent ==
    /\ CoreIdle
    /\ catalog = COMPONENTS
    /\ rules = VALID_CONNECTIONS
    /\ drawn = 0
    /\ tasks \in [Tasks -> { NewTask(r) : r \in ConcurrentRequests }]
    /\ RegistryIdle
    /\ IncentiveIdle

\* mutant: layers is one dict shared by every call
SetLayers_Shared(ts, t, v) ==
    [u \in DOMAIN ts |->
        IF u = t THEN [ts[u] EXCEPT !.layers = v, !.pc = "create"]
        ELSE [ts[u] EXCEPT !.layers = v]]

\* "layers: Dict[int, List[str]] = {}" is a local of the call's frame
SetLayers(ts, t, v) == [ts EXCEPT ![t].layers = v, ![t].pc = "create"]

\* first loop of generate, run by task t
TaskGroupLayers(t) ==
    /\ tasks[t].pc = "called"
    /\ tasks[t].request.fn = "generate_architecture_from_components"
    /\ LET ids == tasks[t].request.component_ids
       IN  tasks' = SetLayers(tasks, t, [l \in LayerKeys(ids) |-> LayerMembers(ids, l)])
    /\ UNCHANGED << coreVars, catalog, rules, drawn, registryVars, incentiveVars >>

\* second loop of generate over the layers dict the first loop left; base
\* tokens have been drawn from the random source before
RECURSIVE CreateNodesFrom(_, _, _, _)
CreateNodesFrom(layers, keys, acc, base) ==
    IF keys = {} THEN acc
    ELSE LET layer_num == Min(keys)
             made == LayerNodes(layers[layer_num], layer_num, base + Len(acc))
         IN  CreateNodesFrom(layers, keys \ {layer_num},
                             acc \o SelectSeq(made, LAMBDA n : n # None), base)

\* second loop of generate, run by task t
TaskCreateNodes(t) ==
    /\ tasks[t].pc = "create"
    /\ LET layers == tasks[t].layers
           ns == CreateNodesFrom(layers, DOMAIN layers, <<>>, drawn)
       IN  /\ tasks' = [tasks EXCEPT ![t].nodes = ns, ![t].pc = "edges"]
           /\ drawn' = drawn + Len(ns)
    /\ UNCHANGED << coreVars, catalog, rules, registryVars, incentiveVars >>

\* generate_edges(nodes), run by task t
TaskGenerateEdges(t) ==
    /\ tasks[t].pc = "edges"
    /\ LET ns == tasks[t].nodes
       IN  \E orders \in EdgeOrders(ns, 1) :
               LET es == generate_edges(ns, orders)
               IN  /\ tasks' = [tasks EXCEPT
                          ![t].edges = [k \in 1..Len(es) |->
                              [es[k] EXCEPT !.id = [prefix |-> "e",
                                                    suffix |-> Token(drawn + k)]]],
                          ![t].pc = "cost"]
                   /\ drawn' = drawn + Len(es)
    /\ UNCHANGED << coreVars, catalog, rules, registryVars, incentiveVars >>

\* the cost part of generate, run by task t
TaskCostEstimate(t) ==
    /\ tasks[t].pc = "cost"
    /\ tasks' = [tasks EXCEPT
           ![t].costEstimate = calculate_architecture_cost(
                                   tasks[t].request.component_ids, tasks[t].request.scope),
           ![t].pc = "returned"]
    /\ UNCHANGED << coreVars, catalog, rules, drawn, registryVars, incentiveVars >>

\* calculate_architecture_cost, run by task t
TaskCalculateArchitectureCost(t) ==
    /\ tasks[t].pc = "called"
    /\ tasks[t].request.fn = "calculate_architecture_cost"
    /\ tasks' = [tasks EXCEPT
           ![t].costEstimate = calculate_architecture_cost(
                                   tasks[t].request.component_ids, tasks[t].request.scope),
           ![t].pc = "returned"]
    /\ UNCHANGED << coreVars, catalog, rules, drawn, registryVars, incentiveVars >>

\* calculate_component_cost, run by task t
TaskCalculateComponentCost(t) ==
    /\ tasks[t].pc = "called"
    /\ tasks[t].request.fn = "calculate_component_cost"
    /\ tasks' = [tasks EXCEPT
           ![t].ret = calculate_component_cost(
                          tasks[t].request.component_id, tasks[t].request.scope),
           ![t].pc = "returned"]
    /\ UNCHANGED << coreVars, catalog, rules, drawn, registryVars, incentiveVars >>

\* the ConnectionValidator queries, run by task t
TaskQueryConnection(t) ==
    /\ tasks[t].pc = "called"
    /\ tasks[t].request.fn = "ConnectionValidator"
    /\ LET r == tasks[t].request
       IN  tasks' = [tasks EXCEPT
               ![t].ret = [is_valid_connection |->
                               is_valid_connection(r.source_category, r.target_category),
                           get_valid_targets |-> get_valid_targets(r.source_category),
                           get_valid_sources |-> get_valid_sources(r.target_category)],
               ![t].pc = "returned"]
    /\ UNCHANGED << coreVars, catalog, rules, drawn, registryVars, incentiveVars >>

NextConcurrent ==
    \E t \in Tasks :
        \/ TaskGroupLayers(t)
        \/ TaskCreateNodes(t)
        \/ TaskGenerateEdges(t)
        \/ TaskCostEstimate(t)
        \/ TaskCalculateArchitectureCost(t)
        \/ TaskCalculateComponentCost(t)
        \/ TaskQueryConnection(t)

SpecConcurrent == InitConcurrent /\ [][NextConcurrent]_vars

----------------------------------------------------------------------------
(* registry_service.py, routers/registry.py: requests on the registry are   *)
(* coroutines of one event loop; each awaited collection operation is one    *)
(* step, and other requests run between the steps                            *)

\* an entry created by seed_initial_data; of a document only the fields the
\* service reads or writes after creation are kept
SeedEntry ==
    [status |-> "verified", votes_for |-> 10, votes_against |-> 0,
     on_chain_hash |-> None, on_chain_tx |-> None]

\* the document submit_entry inserts
PendingEntry ==
    [status |-> "pending", votes_for |-> 0, votes_against |-> 0,
     on_chain_hash |-> None, on_chain_tx |-> None]

\* the id uuid4 gives the submitted entry
SubmittedId == "e1"

Slots == 1..MaxCalls

IdleCall ==
    [fn |-> "none", entry_id |-> "none", voter_id |-> None, vote |-> "none",
     pc |-> "idle", doc |-> None, counted |-> None, written |-> "none",
     result |-> None]

\* the slot holds no request in progress
Free(c) == calls[c].pc \in {"idle", "returned", "raised"}

\* a request that arrives takes the first slot without a request in progress
Arrives(c) == Free(c) /\ \A s \in Slots : Free(s) => c <= s

\* a request answered with an error status
Refused(fn, status) == [IdleCall EXCEPT !.fn = fn, !.pc = "raised", !.result = status]

\* collection.find_one({"_id": entry_id})
find_one(entry_id) == IF entry_id \in DOMAIN registry THEN registry[entry_id] ELSE None

\* collection.update_one({"_id": entry_id}, ...): nothing matches a missing id
update_one(entry_id, doc) ==
    IF entry_id \in DOMAIN registry THEN [registry EXCEPT ![entry_id] = doc] ELSE registry

\* the n-th voter of the run, and the n-th of those who voted before it
Voter(n) == [earlier |-> FALSE, n |-> n]

EarlierVoter(n) == [earlier |-> TRUE, n |-> n]

\* the voters of the run with a recorded vote or a vote in progress
UsedVoters ==
    { v.voter_id : v \in { w \in votes : ~w.voter_id.earlier } }
      \cup { calls[c].voter_id : c \in { s \in Slots : calls[s].fn = "vote" /\ ~Free(s) } }

\* the voters of the run are numbered in the order of their first vote
FreshVoter == Voter(Cardinality(UsedVoters) + 1)

\* the submitted entry after approve + reject votes cast one after the other,
\* neither count having reached 5
VotedEntry(approve, reject) ==
    [PendingEntry EXCEPT !.votes_for = approve, !.votes_against = reject]

\* the registry_votes documents of n earlier votes; of a document the fields
\* "vote" and "timestamp", which nothing reads, are left out; oid stands for
\* the _id the collection gives the document, which tells apart documents
\* with the same entry and voter
EarlierVotes(n) ==
    { [entry_id |-> SubmittedId, voter_id |-> EarlierVoter(i), oid |-> 1] : i \in 1..n }

\* the registry as seed_initial_data and earlier, completed requests left it:
\* nothing submitted yet, or the submitted entry still pending after votes
\* cast one after the other
InitRegistry ==
    /\ CoreIdle
    /\ SharedIdle
    /\ IncentiveIdle
    /\ calls = [c \in Slots |-> IdleCall]
    /\ \/ /\ registry = [i \in {"seed"} |-> SeedEntry]
          /\ votes = {}
       \/ \E approve \in 0..4, reject \in 0..4 :
              /\ registry = [i \in {"seed", SubmittedId} |->
                                IF i = "seed" THEN SeedEntry
                                ELSE VotedEntry(approve, reject)]
              /\ votes = EarlierVotes(approve + reject)

\* POST /registry/entries: submit_entry inserts a pending entry
SubmitEntry ==
    /\ SubmittedId \notin DOMAIN registry
    /\ registry' = [i \in DOMAIN registry \cup {SubmittedId} |->
                        IF i = SubmittedId THEN PendingEntry ELSE registry[i]]
    /\ UNCHANGED << coreVars, sharedVars, incentiveVars, votes, calls >>

\* POST /registry/entries/{id}/vote with a vote that is neither approve nor
\* reject: the router answers 400 before the service is called
VoteRefused(c) ==
    /\ Arrives(c)
    /\ calls' = [calls EXCEPT ![c] = Refused("vote", 400)]
    /\ UNCHANGED << coreVars, sharedVars, incentiveVars, registry, votes >>

\* the entry id of a vote request: the submitted entry, or an id no entry has
VoteTarget == IF SubmittedId \in DOMAIN registry THEN SubmittedId ELSE "no_such_entry"

\* vote_on_entry, "Check if already voted": votes_col.find_one
VoteOnEntry(c) ==
    /\ Arrives(c)
    /\ \E voter \in {Voter(1), FreshVoter}, vote \in {"approve", "reject"} :
           /\ voter.n <= MaxVotes
           /\ LET existing == \E v \in votes :
                                  v.entry_id = VoteTarget /\ v.voter_id = voter
              IN  calls' = [calls EXCEPT ![c] =
                      IF existing THEN Refused("vote", 400)
                      ELSE [IdleCall EXCEPT !.fn = "vote", !.entry_id = VoteTarget,
                                            !.voter_id = voter, !.vote = vote,
                                            !.pc = "insert_vote"]]
    /\ UNCHANGED << coreVars, sharedVars, incentiveVars, registry, votes >>

\* vote_on_entry, "Record vote": votes_col.insert_one
VoteInsert(c) ==
    /\ calls[c].pc = "insert_vote"
    /\ votes' = votes \cup {[entry_id |-> calls[c].entry_id, voter_id |-> calls[c].voter_id,
                             oid |-> Cardinality({ v \in votes :
                                        /\ v.entry_id = calls[c].entry_id
                                        /\ v.voter_id = calls[c].voter_id }) + 1]}
    /\ calls' = [calls EXCEPT ![c].pc = "inc"]
    /\ UNCHANGED << coreVars, sharedVars, incentiveVars, registry >>

\* the document after {"$inc": {field: 1}}
Incremented(doc, vote) ==
    IF vote = "approve"
    THEN [doc EXCEPT !.votes_for = doc.votes_for + 1]
    ELSE [doc EXCEPT !.votes_against = doc.votes_against + 1]

\* vote_on_entry, "Update entry counts": collection.update_one with $inc;
\* counted is the document as this vote left it
VoteIncrement(c) ==
    /\ calls[c].pc = "inc"
    /\ LET doc == find_one(calls[c].entry_id)
           after == IF doc = None THEN None ELSE Incremented(doc, calls[c].vote)
       IN  /\ registry' = update_one(calls[c].entry_id, after)
           /\ calls' = [calls EXCEPT ![c].counted = after, ![c].pc = "find"]
    /\ UNCHANGED << coreVars, sharedVars, incentiveVars, votes >>

\* vote_on_entry: doc = await collection.find_one
VoteFind(c) ==
    /\ calls[c].pc = "find"
    /\ calls' = [calls EXCEPT ![c].doc = find_one(calls[c].entry_id), ![c].pc = "auto_verify"]
    /\ UNCHANGED << coreVars, sharedVars, incentiveVars, registry, votes >>

\* "if doc and doc.get("votes_for", 0) >= 5 and doc.get("status") == "pending"
ShouldVerify(doc) == doc # None /\ doc.votes_for >= 5 /\ doc.status = "pending"

\* "if doc and doc.get("votes_against", 0) >= 5 and doc.get("status") == "pending"
ShouldReject(doc) == doc # None /\ doc.votes_against >= 5 /\ doc.status = "pending"

\* the document after {"$set": {"status": status}}
WithStatus(entry_id, status) ==
    IF entry_id \in DOMAIN registry
    THEN [registry EXCEPT ![entry_id].status = status] ELSE registry

\* vote_on_entry, "Auto-verify if enough votes"
VoteAutoVerify(c) ==
    /\ calls[c].pc = "auto_verify"
    /\ registry' = IF ShouldVerify(calls[c].doc)
                   THEN WithStatus(calls[c].entry_id, "verified") ELSE registry
    /\ calls' = [calls EXCEPT ![c].pc = "auto_reject"]
    /\ UNCHANGED << coreVars, sharedVars, incentiveVars, votes >>

\* vote_on_entry, "Auto-reject if too many against votes": the test reads the
\* doc fetched before the auto-verify
VoteAutoReject(c) ==
    /\ calls[c].pc = "auto_reject"
    /\ registry' = IF ShouldReject(calls[c].doc)
                   THEN WithStatus(calls[c].entry_id, "rejected") ELSE registry
    /\ calls' = [calls EXCEPT ![c].pc = "reload"]
    /\ UNCHANGED << coreVars, sharedVars, incentiveVars, votes >>

\* the last find_one of vote_on_entry and of verify_entry_on_chain and the
\* RegistryEntry built from it; for a missing entry updated.items() raises
\* and the router answers 500
ReturnUpdated(c) ==
    /\ calls[c].pc = "reload"
    /\ LET updated == find_one(calls[c].entry_id)
       IN  calls' = [calls EXCEPT ![c] =
               IF updated = None THEN Refused(calls[c].fn, 500)
               ELSE [IdleCall EXCEPT !.fn = calls[c].fn, !.vote = calls[c].vote,
                                     !.counted = calls[c].counted,
                                     !.written = calls[c].written,
                                     !.pc = "returned", !.result = updated]]
    /\ UNCHANGED << coreVars, sharedVars, incentiveVars, registry, votes >>

\* verify_entry_on_chain: find_one, then the two tests that raise ValueError
VerifyEntryOnChain(c) ==
    /\ Arrives(c)
    /\ \E entry_id \in {SubmittedId} :
           LET doc == find_one(entry_id)
               refused == doc = None \/ doc.status # "verified"
           IN  calls' = [calls EXCEPT ![c] =
                   IF refused THEN Refused("verify", 400)
                   ELSE [IdleCall EXCEPT !.fn = "verify", !.entry_id = entry_id,
                                         !.doc = doc, !.pc = "write_hash"]]
    /\ UNCHANGED << coreVars, sharedVars, incentiveVars, registry, votes >>

\* sha256 of the canonical entry data
EntryHash(entry_id) == [sha256 |-> entry_id]

\* verify_entry_on_chain, "Update MongoDB": tx_hash is None when the chain is
\* unavailable or the registration fails; written is the status the entry
\* has as the hash is written
VerifyWriteHash(c) ==
    /\ calls[c].pc = "write_hash"
    /\ \E tx_hash \in {None, [tx |-> calls[c].entry_id]} :
           LET doc == find_one(calls[c].entry_id)
           IN  /\ registry' = update_one(calls[c].entry_id,
                                  [doc EXCEPT !.on_chain_hash = EntryHash(calls[c].entry_id),
                                              !.on_chain_tx = tx_hash])
               /\ calls' = [calls EXCEPT ![c].written = doc.status, ![c].pc = "reload"]
    /\ UNCHANGED << coreVars, sharedVars, incentiveVars, votes >>

NextRegistry ==
    \/ SubmitEntry
    \/ \E c \in Slots :
           \/ VoteRefused(c)
           \/ VoteOnEntry(c)
           \/ VoteInsert(c)
           \/ VoteIncrement(c)
           \/ VoteFind(c)
           \/ VoteAutoVerify(c)
           \/ VoteAutoReject(c)
           \/ ReturnUpdated(c)
           \/ VerifyEntryOnChain(c)
           \/ VerifyWriteHash(c)

SpecRegistry == InitRegistry /\ [][NextRegistry]_vars

----------------------------------------------------------------------------
(* incentive_service.py, routers/incentives.py: requests on the incentive    *)
(* endpoints are coroutines of one event loop; each awaited collection       *)
(* operation is one step, the synchronous code up to it included             *)

\* BADGE_DEFINITIONS in list order; threshold_points is 0 where the
\* definition leaves it None (both are false in "if badge.threshold_points")
BADGE_DEFINITIONS ==
    << [badge_id |-> "green_starter", threshold_points |-> 100],
       [badge_id |-> "eco_developer", threshold_points |-> 500],
       [badge_id |-> "carbon_champion", threshold_points |-> 1000],
       [badge_id |-> "region_optimizer", threshold_points |-> 0],
       [badge_id |-> "budget_keeper", threshold_points |-> 0],
       [badge_id |-> "sustainability_pioneer", threshold_points |-> 5000] >>

BadgeIds == { BADGE_DEFINITIONS[i].badge_id : i \in 1..Len(BADGE_DEFINITIONS) }

\* the user and the wallet of the requests
UserId == "u1"

Wallet == "0xw"

IdleClaim ==
    [fn |-> "none", pc |-> "idle", points |-> 0, category |-> "none",
     amount |-> 0, total |-> 0, badge_id |-> "none", wallet_address |-> "none",
     eligible |-> << >>, tx_hash |-> None, result |-> None]

\* the slot holds no incentive request in progress
ClaimFree(c) == claims[c].pc \in {"idle", "returned", "raised"}

\* a request that arrives takes the first slot without a request in progress
ClaimArrives(c) == ClaimFree(c) /\ \A s \in Slots : ClaimFree(s) => c <= s

\* a request answered with an HTTP error status
ClaimRaised(fn, status) ==
    [IdleClaim EXCEPT !.fn = fn, !.pc = "raised", !.result = status]

\* ClaimRewardResponse: of the response the fields success and message, the
\* message by its kind
ClaimRewardResponse(success, message) == [success |-> success, message |-> message]

\* the documents of a collection equal to doc but for the _id
Copies(collection, doc) ==
    { d \in collection : [d EXCEPT !.oid = 0] = [doc EXCEPT !.oid = 0] }

\* collection.insert_one(doc): oid stands for the _id the collection gives
\* the document, which tells apart documents with the same fields
insert_one(collection, doc) ==
    collection \cup {[doc EXCEPT !.oid = Cardinality(Copies(collection, doc)) + 1]}

\* the green_points document of a transaction; tx_id is the oid, and the
\* fields "reason" and "timestamp", which nothing reads, are left out
PointsTransaction(user_id, points, category) ==
    [user_id |-> user_id, points |-> points, category |-> category, oid |-> 0]

\* the user_badges document; "earned_at" is left out
BadgeRecord(user_id, badge_id, tx_hash, wallet_address) ==
    [user_id |-> user_id, badge_id |-> badge_id, tx_hash |-> tx_hash,
     wallet_address |-> wallet_address, oid |-> 0]

\* users.update_one({"user_id": user_id}, {"$inc": {"total_points": points}}):
\* with upsert a missing document is created, without it nothing matches
IncPoints(user_id, points, upsert) ==
    IF user_id \in DOMAIN green_users
    THEN [green_users EXCEPT ![user_id].total_points = @ + points]
    ELSE IF upsert
         THEN [u \in DOMAIN green_users \cup {user_id} |->
                  IF u = user_id THEN [total_points |-> points] ELSE green_users[u]]
         ELSE green_users

\* get_user_points(user_id)["total_points"]; badges_count is not read by the
\* callers modelled
get_user_points(user_id) ==
    IF user_id \in DOMAIN green_users THEN green_users[user_id].total_points ELSE 0

\* badges_col.find({"user_id": user_id}): the badge ids earned
EarnedIds(user_id) == { b.badge_id : b \in { r \in user_badges : r.user_id = user_id } }

\* the loop of check_badge_eligibility over BADGE_DEFINITIONS from index i
RECURSIVE EligibleFrom(_, _, _)
EligibleFrom(i, earned_ids, total_points) ==
    IF i > Len(BADGE_DEFINITIONS) THEN << >>
    ELSE LET badge == BADGE_DEFINITIONS[i]
             rest == EligibleFrom(i + 1, earned_ids, total_points)
         IN  IF badge.badge_id \in earned_ids THEN rest
             ELSE IF badge.threshold_points # 0
                     /\ total_points >= badge.threshold_points
                  THEN << badge.badge_id >> \o rest
                  ELSE rest

\* the transactions of earlier awards adding up to 65 and to 535 points
EarlierAward(points) ==
    { [PointsTransaction(UserId, points, "carbon_reduction") EXCEPT !.oid = 1] }

\* the score requests of the endpoint: 65 and 535 green points
EndpointScoreRequests ==
    [current_carbon_kg : {90}, previous_carbon_kg : {<< 100 >>},
     region : {"us-east-1"}, previous_region : {<< >>},
     user_id : {<< >>, << UserId >>}]
    \cup [current_carbon_kg : {0}, previous_carbon_kg : {<< 100 >>},
          region : {"eu-north-1"}, previous_region : {<< >>},
          user_id : {<< UserId >>}]

\* the collections as earlier, completed requests left them: no user yet, or
\* the user after one score request that awarded 65 points; the chain is
\* configured or not for the whole run
InitIncentive ==
    /\ CoreIdle
    /\ SharedIdle
    /\ RegistryIdle
    /\ claims = [c \in Slots |-> IdleClaim]
    /\ user_badges = {}
    /\ \E available \in BOOLEAN :
           chain = [is_available |-> available, minted |-> 0, badges |-> 0]
    /\ \/ /\ green_users = << >>
          /\ green_points = {}
       \/ /\ green_users = [u \in {UserId} |-> [total_points |-> 65]]
          /\ green_points = EarlierAward(65)

\* POST /incentives/score: the score, then for a request without user_id the
\* response, else award_green_points up to "Save transaction"
CalculateScore(c) ==
    /\ ClaimArrives(c)
    /\ \E r \in EndpointScoreRequests :
           LET score == calculate_sustainability_score(
                            r.current_carbon_kg, r.previous_carbon_kg,
                            r.region, r.previous_region)
               category == IF score.carbon_saved_kg > 0
                           THEN "carbon_reduction" ELSE "general"
           IN  IF r.user_id # << >> /\ score.green_points > 0
               THEN /\ Cardinality(green_points) < MaxTransactions
                    /\ green_points' = insert_one(green_points,
                           PointsTransaction(r.user_id[1], score.green_points, category))
                    /\ claims' = [claims EXCEPT ![c] =
                           [IdleClaim EXCEPT !.fn = "score", !.pc = "award_inc",
                                             !.points = score.green_points,
                                             !.category = category,
                                             !.result = score]]
               ELSE /\ claims' = [claims EXCEPT ![c] =
                           [IdleClaim EXCEPT !.fn = "score", !.pc = "returned",
                                             !.result = score]]
                    /\ UNCHANGED green_points
    /\ UNCHANGED << coreVars, sharedVars, registryVars, green_users, user_badges, chain >>

\* award_green_points, "Update user total": update_one with $inc and upsert
AwardIncrement(c) ==
    /\ claims[c].pc = "award_inc"
    /\ green_users' = IncPoints(UserId, claims[c].points, TRUE)
    /\ claims' = [claims EXCEPT ![c].pc = "eligibility_points"]
    /\ UNCHANGED << coreVars, sharedVars, registryVars, green_points, user_badges, chain >>

\* check_badge_eligibility: user_data = await self.get_user_points(user_id)
EligibilityPoints(c) ==
    /\ claims[c].pc = "eligibility_points"
    /\ claims' = [claims EXCEPT ![c].total = get_user_points(UserId),
                                ![c].pc = "eligibility_badges"]
    /\ UNCHANGED << coreVars, sharedVars, registryVars,
                    green_users, green_points, user_badges, chain >>

\* the response of the score endpoint once no eligible badge is left
ScoreReturned(c) == [IdleClaim EXCEPT !.fn = "score", !.pc = "returned",
                                      !.result = claims[c].result]

\* check_badge_eligibility: the badges earned are fetched and the eligible
\* ones listed; the endpoint then claims them one by one
EligibilityBadges(c) ==
    /\ claims[c].pc = "eligibility_badges"
    /\ LET eligible == EligibleFrom(1, EarnedIds(UserId), claims[c].total)
       IN  claims' = [claims EXCEPT ![c] =
               IF eligible = << >> THEN ScoreReturned(c)
               ELSE [claims[c] EXCEPT !.eligible = eligible, !.pc = "badge_check"]]
    /\ UNCHANGED << coreVars, sharedVars, registryVars,
                    green_users, green_points, user_badges, chain >>

\* claim_badge, "Check if already earned": badges_col.find_one
existing(user_id, badge_id) ==
    \E r \in user_badges : r.user_id = user_id /\ r.badge_id = badge_id

\* claim_badge called by the score endpoint for the first eligible badge left,
\* without wallet: the check; a badge found earned is skipped
ScoreClaimBadge(c) ==
    /\ claims[c].pc = "badge_check"
    /\ claims' = [claims EXCEPT ![c] =
           IF existing(UserId, Head(claims[c].eligible))
           THEN IF Tail(claims[c].eligible) = << >> THEN ScoreReturned(c)
                ELSE [claims[c] EXCEPT !.eligible = Tail(@)]
           ELSE [claims[c] EXCEPT !.badge_id = Head(claims[c].eligible),
                                  !.pc = "badge_insert"]]
    /\ UNCHANGED << coreVars, sharedVars, registryVars,
                    green_users, green_points, user_badges, chain >>

\* POST /incentives/claim with an unknown claim_type, a token claim without a
\* positive token_amount or a badge claim without badge_id: 400
ClaimRefused(c) ==
    /\ ClaimArrives(c)
    /\ claims' = [claims EXCEPT ![c] = ClaimRaised("claim", 400)]
    /\ UNCHANGED << coreVars, sharedVars, registryVars,
                    green_users, green_points, user_badges, chain >>

\* POST /incentives/claim, claim_type "badge": claim_badge up to "Save to
\* MongoDB": the definition is looked up, the badge checked and, with a wallet
\* and an available chain, minted; a failed mint leaves tx_hash None
ClaimBadge(c) ==
    /\ ClaimArrives(c)
    /\ Cardinality(user_badges) < MaxBadgeRecords
    /\ \E badge_id \in {"green_starter", "region_optimizer", "no_such_badge"},
          minted \in BOOLEAN :
           IF badge_id \notin BadgeIds
           THEN /\ ~minted
                /\ claims' = [claims EXCEPT ![c] =
                       [IdleClaim EXCEPT !.fn = "badge", !.pc = "returned",
                            !.result = ClaimRewardResponse(FALSE, "not found")]]
                /\ UNCHANGED chain
           ELSE IF existing(UserId, badge_id)
           THEN /\ ~minted
                /\ claims' = [claims EXCEPT ![c] =
                       [IdleClaim EXCEPT !.fn = "badge", !.pc = "returned",
                            !.badge_id = badge_id,
                            !.result = ClaimRewardResponse(FALSE, "Badge already earned")]]
                /\ UNCHANGED chain
           ELSE /\ minted => chain.is_available
                /\ chain' = IF minted THEN [chain EXCEPT !.badges = @ + 1] ELSE chain
                /\ claims' = [claims EXCEPT ![c] =
                       [IdleClaim EXCEPT !.fn = "badge", !.pc = "badge_insert",
                            !.badge_id = badge_id, !.wallet_address = Wallet,
                            !.tx_hash = IF minted THEN [tx |-> badge_id] ELSE None]]
    /\ UNCHANGED << coreVars, sharedVars, registryVars,
                    green_users, green_points, user_badges >>

\* claim_badge, "Save to MongoDB": badges_col.insert_one, then the response;
\* the score endpoint goes on to the next eligible badge
ClaimBadgeInsert(c) ==
    /\ claims[c].pc = "badge_insert"
    /\ user_badges' = insert_one(user_badges,
           BadgeRecord(UserId, claims[c].badge_id, claims[c].tx_hash,
                       claims[c].wallet_address))
    /\ claims' = [claims EXCEPT ![c] =
           IF claims[c].fn = "badge"
           THEN [IdleClaim EXCEPT !.fn = "badge", !.pc = "returned",
                     !.badge_id = claims[c].badge_id,
                     !.result = ClaimRewardResponse(TRUE, "earned")]
           ELSE IF Tail(claims[c].eligible) = << >> THEN ScoreReturned(c)
           ELSE [claims[c] EXCEPT !.eligible = Tail(@), !.pc = "badge_check"]]
    /\ UNCHANGED << coreVars, sharedVars, registryVars, green_users, green_points, chain >>

\* POST /incentives/claim, claim_type "tokens": claim_tokens up to "Deduct
\* points": get_user_points, the test of the amount and, with an available
\* chain, mint_green_tokens(wallet_address, amount * 10**18), which raises
\* when the contract is not configured or the transaction fails; minted
\* counts whole tokens of 10**18 units
ClaimTokens(c) ==
    /\ ClaimArrives(c)
    /\ Cardinality(green_points) < MaxTransactions
    /\ \E amount \in {50, 100}, mint_raises \in BOOLEAN :
           LET total == get_user_points(UserId)
           IN  IF total < amount
               THEN /\ ~mint_raises
                    /\ claims' = [claims EXCEPT ![c] =
                           [IdleClaim EXCEPT !.fn = "tokens", !.pc = "returned",
                                !.amount = amount, !.total = total,
                                !.result = ClaimRewardResponse(FALSE, "Insufficient points")]]
                    /\ UNCHANGED chain
               ELSE IF ~chain.is_available
               THEN /\ ~mint_raises
                    /\ claims' = [claims EXCEPT ![c] =
                           [IdleClaim EXCEPT !.fn = "tokens", !.pc = "deduct",
                                !.amount = amount, !.total = total]]
                    /\ UNCHANGED chain
               ELSE IF mint_raises
               THEN /\ claims' = [claims EXCEPT ![c] =
                           [IdleClaim EXCEPT !.fn = "tokens", !.pc = "returned",
                                !.amount = amount, !.total = total,
                                !.result = ClaimRewardResponse(FALSE, "Token minting failed")]]
                    /\ UNCHANGED chain
               ELSE /\ chain' = [chain EXCEPT !.minted = @ + amount]
                    /\ claims' = [claims EXCEPT ![c] =
                           [IdleClaim EXCEPT !.fn = "tokens", !.pc = "deduct",
                                !.amount = amount, !.total = total,
                                !.tx_hash = [tx |-> "mint"]]]
    /\ UNCHANGED << coreVars, sharedVars, registryVars,
                    green_users, green_points, user_badges >>

\* claim_tokens, "Deduct points": update_one with $inc of -amount
ClaimTokensDeduct(c) ==
    /\ claims[c].pc = "deduct"
    /\ green_users' = IncPoints(UserId, -claims[c].amount, FALSE)
    /\ claims' = [claims EXCEPT ![c].pc = "record"]
    /\ UNCHANGED << coreVars, sharedVars, registryVars, green_points, user_badges, chain >>

\* claim_tokens, "Record the claim": insert_one, then the response
ClaimTokensRecord(c) ==
    /\ claims[c].pc = "record"
    /\ green_points' = insert_one(green_points,
           PointsTransaction(UserId, -claims[c].amount, "token_claim"))
    /\ claims' = [claims EXCEPT ![c] =
           [IdleClaim EXCEPT !.fn = "tokens", !.pc = "returned",
                !.amount = claims[c].amount, !.total = claims[c].total,
                !.tx_hash = claims[c].tx_hash,
                !.result = ClaimRewardResponse(TRUE, "Minted")]]
    /\ UNCHANGED << coreVars, sharedVars, registryVars, green_users, user_badges, chain >>

NextIncentive ==
    \E c \in Slots :
        \/ CalculateScore(c)
        \/ AwardIncrement(c)
        \/ EligibilityPoints(c)
        \/ EligibilityBadges(c)
        \/ ScoreClaimBadge(c)
        \/ ClaimRefused(c)
        \/ ClaimBadge(c)
        \/ ClaimBadgeInsert(c)
        \/ ClaimTokens(c)
        \/ ClaimTokensDeduct(c)
        \/ ClaimTokensRecord(c)

SpecIncentive == InitIncentive /\ [][NextIncentive]_vars

----------------------------------------------------------------------------
(* Properties                                                               *)

Returned(fn) == pc = "returned" /\ request.fn = fn

NodeIndices == 1..Len(nodes)

\* the index of the node an edge end names
NodeIndexOf(id) == CHOOSE i \in NodeIndices : nodes[i].id = id

CategoryOfNodeId(id) == nodes[NodeIndexOf(id)].data.category

\* number of positions of a sequence that satisfy Test
Count(seq, Test(_)) == Cardinality({ i \in 1..Len(seq) : Test(seq[i]) })

RECURSIVE SumScaledCost(_)
SumScaledCost(breakdown) ==
    IF breakdown = <<>> THEN 0
    ELSE Head(breakdown).scaledCost + SumScaledCost(Tail(breakdown))

CostReturned ==
    \/ Returned("generate_architecture_from_components")
    \/ Returned("calculate_architecture_cost")

\* C1: the total of calculate_architecture_cost is the sum of the scaledCost
\* of the breakdown entries it returns, rounded to 2 decimals, for every id
\* list (unknown and repeated ids included) and scope.
C1_TotalIsRoundedSum ==
    CostReturned =>
        costEstimate.total
            = RoundHalfEven(SumScaledCost(costEstimate.breakdown) * 100, 100)

C1_Witness ==
    /\ Returned("calculate_architecture_cost")
    /\ request.component_ids = <<"postgresql", "no_such_component", "postgresql">>
    /\ Len(costEstimate.breakdown) = 2
    /\ costEstimate.breakdown[1].scaledCost # costEstimate.breakdown[1].baseCost
    /\ costEstimate.total > 0

\* C2: in a generated graph, for every source node and every category among
\* the valid targets of its category that has a node, exactly one edge leaves
\* the source toward that category, and it ends at the first node of that
\* category in creation order; further nodes of the category get no edge
\* from that source.
C2_OneEdgeToFirstOfCategory ==
    Returned("generate_architecture_from_components") =>
        \A i \in NodeIndices :
            \A c \in get_valid_targets(nodes[i].data.category) :
                LET ofCategory == { j \in NodeIndices : nodes[j].data.category = c }
                    toward == { k \in 1..Len(edges) :
                                  /\ edges[k].source = nodes[i].id
                                  /\ CategoryOfNodeId(edges[k].target) = c }
                IN  ofCategory # {} =>
                        /\ Cardinality(toward) = 1
                        /\ \A k \in toward : edges[k].target = nodes[Min(ofCategory)].id

C2_Witness ==
    /\ Returned("generate_architecture_from_components")
    /\ request.component_ids = <<"nextjs", "fastapi", "django">>
    /\ Len(nodes) = 3
    /\ \E k \in 1..Len(edges) :
          edges[k].source = nodes[1].id /\ edges[k].target = nodes[2].id
    /\ \A k \in 1..Len(edges) :
          ~(edges[k].source = nodes[1].id /\ edges[k].target = nodes[3].id)

\* C3: every edge of a generated graph joins two nodes whose (source
\* category, target category) pair is one of the connection rules.
C3_EdgesLicensed ==
    Returned("generate_architecture_from_components") =>
        \A k \in 1..Len(edges) :
            /\ \E i \in NodeIndices : nodes[i].id = edges[k].source
            /\ \E i \in NodeIndices : nodes[i].id = edges[k].target
            /\ << CategoryOfNodeId(edges[k].source), CategoryOfNodeId(edges[k].target) >>
                   \in VALID_CONNECTIONS

C3_Witness ==
    /\ Returned("generate_architecture_from_components")
    /\ Len(edges) >= 3
    /\ \E k \in 1..Len(edges) :
          /\ CategoryOfNodeId(edges[k].source) = "database"
          /\ CategoryOfNodeId(edges[k].target) = "storage"

\* the catalog holds the id with base cost 0
IsFreeCatalogId(id) ==
    \E i \in 1..Len(COMPONENTS) : COMPONENTS[i].id = id /\ COMPONENTS[i].base_cost = 0

\* C4: calculate_component_cost returns (0, 0) for every catalog component
\* of base cost 0, whatever the scope, and for every id the catalog lacks.
C4_FreeOrUnknownCostsNothing ==
    ( /\ Returned("calculate_component_cost")
      /\ \/ IsFreeCatalogId(request.component_id)
         \/ request.component_id \notin CatalogIds )
    => ret = [base_cost |-> 0, scaled_cost |-> 0]

C4_Witness ==
    /\ Returned("calculate_component_cost")
    /\ request.component_id = "prometheus"
    /\ request.scope.users = 10000000
    /\ request.scope.trafficLevel = 5
    /\ request.scope.dataVolumeGB = 100
    /\ ret = [base_cost |-> 0, scaled_cost |-> 0]

\* the step function of C5, in tenths
UserStep(users) ==
    IF users <= 1000 THEN 10
    ELSE IF users <= 10000 THEN 15
    ELSE IF users <= 100000 THEN 25
    ELSE IF users <= 1000000 THEN 40
    ELSE 60

\* C5: get_user_multiplier is 1.0 up to 1,000 users, 1.5 up to 10,000, 2.5 up
\* to 100,000, 4.0 up to 1,000,000 and 6.0 above, the breakpoints included,
\* and it never decreases when users grows; 999 and 1000 give 1.0, 1001 gives
\* 1.5 and 10^7 gives 6.0.
C5_UserMultiplierSteps ==
    Returned("get_user_multiplier") =>
        /\ ret = UserStep(request.users)
        /\ \A u \in UserSamples : u <= request.users => get_user_multiplier(u) <= ret
        /\ request.users \in {999, 1000} => ret = 10
        /\ request.users = 1001 => ret = 15
        /\ request.users = 10000000 => ret = 60

C5_Witness ==
    /\ Returned("get_user_multiplier")
    /\ request.users = 1000
    /\ ret = 10

\* an edge of the graph from node i to node j
HasEdge(i, j) ==
    \E k \in 1..Len(edges) :
        edges[k].source = nodes[i].id /\ edges[k].target = nodes[j].id

\* C6: generate([nextjs, fastapi, postgresql]) under users=1000,
\* trafficLevel=3, dataVolumeGB=100, regions=1, availability=99.9 yields
\* exactly 3 nodes, at (100,100), (700,100) and (1000,100) in that order,
\* with an edge frontend -> backend and an edge backend -> database.
C6_ThreeTierExample ==
    ( /\ Returned("generate_architecture_from_components")
      /\ request.component_ids = <<"nextjs", "fastapi", "postgresql">>
      /\ request.scope = DefaultScope )
    => /\ Len(nodes) = 3
       /\ [i \in 1..3 |-> nodes[i].data.componentId]
              = <<"nextjs", "fastapi", "postgresql">>
       /\ [i \in 1..3 |-> nodes[i].position]
              = << [x |-> 100, y |-> 100], [x |-> 700, y |-> 100],
                   [x |-> 1000, y |-> 100] >>
       /\ HasEdge(1, 2)
       /\ HasEdge(2, 3)

C6_Witness ==
    /\ Returned("generate_architecture_from_components")
    /\ request.component_ids = <<"nextjs", "fastapi", "postgresql">>
    /\ request.scope = DefaultScope
    /\ Len(nodes) = 3
    /\ Len(edges) >= 2

NoIdResolves(ids) == \A i \in 1..Len(ids) : ids[i] \notin CatalogIds

\* C7: when the id list is empty or holds no catalog id, generate returns no
\* node, no edge and a cost estimate of total 0 with an empty breakdown.
C7_NothingResolvesNothingGenerated ==
    ( /\ Returned("generate_architecture_from_components")
      /\ NoIdResolves(request.component_ids) )
    => /\ nodes = <<>>
       /\ edges = <<>>
       /\ costEstimate = [total |-> 0, breakdown |-> <<>>]

C7_Witness ==
    /\ Returned("generate_architecture_from_components")
    /\ request.component_ids = <<"no_such_component", "no_such_component">>
    /\ nodes = <<>>
    /\ costEstimate.total = 0

\* C8: the nodes of a generated graph are exactly the entries of the id list
\* that the catalog resolves, one node per entry, and neither a node nor a
\* breakdown entry exists for an id the catalog lacks.
C8_UnknownIdsSkipped ==
    Returned("generate_architecture_from_components") =>
        LET ids == request.component_ids
        IN  /\ \A id \in IdPool \cup { nodes[i].data.componentId : i \in NodeIndices } :
                   Count(nodes, LAMBDA n : n.data.componentId = id)
                       = IF id \in CatalogIds
                         THEN Count(ids, LAMBDA x : x = id) ELSE 0
            /\ \A k \in 1..Len(costEstimate.breakdown) :
                   costEstimate.breakdown[k].componentId \in CatalogIds

C8_Witness ==
    /\ Returned("generate_architecture_from_components")
    /\ request.component_ids = <<"fastapi", "no_such_component", "postgresql">>
    /\ Len(nodes) = 2
    /\ Len(costEstimate.breakdown) = 2

\* C9: for every pair of categories, named by a rule or not, the target is
\* in get_valid_targets(source) iff is_valid_connection(source, target) iff
\* the source is in get_valid_sources(target).
C9_ValidatorQueriesAgree ==
    Returned("ConnectionValidator") =>
        /\ (request.target_category \in ret.get_valid_targets) <=> ret.is_valid_connection
        /\ ret.is_valid_connection <=> (request.source_category \in ret.get_valid_sources)

C9_Witness ==
    /\ Returned("ConnectionValidator")
    /\ request.source_category = "database"
    /\ request.target_category = "storage"
    /\ ret.is_valid_connection
    /\ ret.get_valid_targets = {"storage"}

\* the carbon_kg total generate_report gives for the request's architecture
\* in another region
CarbonKgIn(r) == generate_report(request.architecture_json, r).metrics.carbon_kg

\* C10 as stated: for every node set and scope the carbon_kg total of
\* eu-north-1 is strictly lower than that of ap-south-1.
C10_Original ==
    ( /\ Returned("generate_report")
      /\ request.region = "eu-north-1" )
    => report.metrics.carbon_kg < CarbonKgIn("ap-south-1")

\* C10 amended: for every node set with at least one node and every scope
\* (users >= 0, trafficLevel 1..5) the carbon_kg total reported for
\* eu-north-1 is strictly lower than the one reported for ap-south-1; with no
\* node both totals are 0.
C10_LowerWhenNodesExist ==
    ( /\ Returned("generate_report")
      /\ request.region = "eu-north-1" )
    => /\ report.metrics.carbon_intensity = 8
       /\ request.architecture_json.nodes # <<>>
              => report.metrics.carbon_kg < CarbonKgIn("ap-south-1")
       /\ request.architecture_json.nodes = <<>>
              => report.metrics.carbon_kg = 0 /\ CarbonKgIn("ap-south-1") = 0

C10_Witness ==
    /\ Returned("generate_report")
    /\ request.region = "eu-north-1"
    /\ Len(request.architecture_json.nodes) = 2
    /\ report.metrics.carbon_kg > 0
    /\ report.metrics.carbon_kg < CarbonKgIn("ap-south-1")


\* the catalog entry of an id the catalog holds
CatalogEntry(id) ==
    COMPONENTS[CHOOSE i \in 1..Len(COMPONENTS) : COMPONENTS[i].id = id]

\* the scaled cost C11 states for a component under a scope, in cents: the
\* multipliers are in tenths, so a product of four is in 1/10000 dollar
C11_Expected(component, sc) ==
    LET base == component.base_cost
        u == get_user_multiplier(sc.users)
        t == get_traffic_multiplier(sc.trafficLevel)
        r == get_region_multiplier(sc.regions)
        a == get_availability_multiplier(sc.availability)
        c == component.category
    IN  CASE c \in {"database", "storage"} ->
                 RoundHalfEven(base * u * t * r * a + sc.dataVolumeGB * 230, 100)
          [] c \in {"hosting", "infrastructure"} ->
                 RoundHalfEven(base * u * t * r * a, 100)
          [] c \in {"monitoring", "analytics"} ->
                 RoundHalfEven(base * r * a * 100, 100)
          [] OTHER -> RoundHalfEven(base * u * t * 100, 100)

\* C11: for a component of base cost > 0 the scaled cost is, rounded to 2
\* decimals, base x user x traffic x region x availability + dataVolumeGB x
\* 0.023 for database/storage, base x user x traffic x region x availability
\* for hosting/infrastructure, base x region x availability for
\* monitoring/analytics and base x user x traffic for every other category;
\* postgresql under the default scope costs 62.3.
C11_CategoryScaling ==
    ( /\ Returned("calculate_component_cost")
      /\ request.component_id \in CatalogIds
      /\ ~IsFreeCatalogId(request.component_id) )
    => /\ ret.base_cost = CatalogEntry(request.component_id).base_cost * 100
       /\ ret.scaled_cost = C11_Expected(CatalogEntry(request.component_id), request.scope)
       /\ (request.component_id = "postgresql" /\ request.scope = DefaultScope)
              => ret.scaled_cost = 6230

C11_Witness ==
    /\ Returned("calculate_component_cost")
    /\ request.component_id = "postgresql"
    /\ request.scope = DefaultScope
    /\ ret = [base_cost |-> 2500, scaled_cost |-> 6230]


\* the category-to-layer map C12 states
C12_Layer(category) ==
    CASE category = "frontend" -> 0
      [] category = "infrastructure" -> 1
      [] category \in {"backend", "authentication"} -> 2
      [] category \in {"database", "storage", "messaging", "search", "ai_ml",
                       "email", "payment"} -> 3
      [] category = "hosting" -> 4
      [] category \in {"monitoring", "analytics"} -> 5
      [] category = "cicd" -> 6
      [] OTHER -> 3

\* the nodes created before node i in the layer of node i
PlacedBefore(i) ==
    { j \in 1..(i - 1) :
        C12_Layer(nodes[j].data.category) = C12_Layer(nodes[i].data.category) }

\* C12: every node of a generated graph sits at (100 + layer x 300,
\* 100 + indexInLayer x 150), layer given by the fixed category-to-layer map
\* (3 for a category the map lacks) and indexInLayer the number of nodes
\* already placed in that layer.
C12_NodePositions ==
    Returned("generate_architecture_from_components") =>
        /\ \A i \in NodeIndices :
              nodes[i].position
                  = [x |-> 100 + C12_Layer(nodes[i].data.category) * 300,
                     y |-> 100 + Cardinality(PlacedBefore(i)) * 150]
        /\ \A c \in Categories : LayerOf(c) = C12_Layer(c)

C12_Witness ==
    /\ Returned("generate_architecture_from_components")
    /\ request.component_ids = <<"mixpanel", "newrelic">>
    /\ Len(nodes) = 2
    /\ nodes[2].position = [x |-> 1600, y |-> 250]


\* a list without its repeated entries, first occurrences kept in order
RECURSIVE Dedup(_)
Dedup(ids) ==
    IF ids = <<>> THEN <<>>
    ELSE LET rest == Dedup(SubSeq(ids, 1, Len(ids) - 1))
             last == ids[Len(ids)]
         IN  IF \E i \in 1..Len(rest) : rest[i] = last THEN rest ELSE Append(rest, last)

\* what a graph shows of its nodes apart from the random ids
NodesShown(ns) == [i \in 1..Len(ns) |-> [data |-> ns[i].data, position |-> ns[i].position]]

CatalogIndex(id) == CHOOSE i \in 1..Len(COMPONENTS) : COMPONENTS[i].id = id

ResolvingInLayer(ids, layer) ==
    SelectSeq(ids, LAMBDA x : x \in CatalogIds /\ C12_Layer(CatalogEntry(x).category) = layer)

\* the nodes of the given layer, in node order
NodesInLayer(layer) ==
    SelectSeq(nodes, LAMBDA n : n.position.x = 100 + layer * 300)

AvailabilityStep(availability) ==
    IF availability <= 99000 THEN 10
    ELSE IF availability <= 99900 THEN 12
    ELSE IF availability <= 99950 THEN 14
    ELSE IF availability <= 99990 THEN 17
    ELSE 25

\* C15: get_availability_multiplier returns the multiplier of the smallest
\* tier among 99.0, 99.9, 99.95, 99.99, 99.999 (1.0, 1.2, 1.4, 1.7, 2.5) that
\* is >= the requested availability, 2.5 above every tier, and never
\* decreases when the requested availability grows.
C15_AvailabilityTiers ==
    Returned("get_availability_multiplier") =>
        /\ ret = AvailabilityStep(request.availability)
        /\ \A a \in AvailabilitySamples :
               a <= request.availability => get_availability_multiplier(a) <= ret

C15_Witness ==
    /\ Returned("get_availability_multiplier")
    /\ request.availability = 99950
    /\ ret = 14

\* the region multiplier C16 states, in tenths
RegionStep(regions) ==
    CASE regions = 1 -> 10
      [] regions = 2 -> 13
      [] regions = 3 -> 15
      [] regions >= 4 -> 18
      [] OTHER -> 10

\* the traffic multiplier C16 states, in tenths
TrafficStep(level) ==
    CASE level = 1 -> 10
      [] level = 2 -> 15
      [] level = 3 -> 20
      [] level = 4 -> 30
      [] level = 5 -> 50
      [] OTHER -> 20

\* the places of an id list whose id is in the catalog
Resolving(ids) == { i \in 1..Len(ids) : get_component_by_id(ids[i]) # None }

\* C16: no scope value makes the cost core fail: every multiplier lookup
\* returns its documented value or default (traffic 2.0 outside 1..5; region
\* 1.0, 1.3, 1.5 for 1, 2, 3, 1.8 from 4 on, 1.0 otherwise), and
\* calculate_component_cost, calculate_architecture_cost and generate
\* return a result for every scope.
C16_NoScopeFails ==
    /\ Returned("get_traffic_multiplier") => ret = TrafficStep(request.traffic_level)
    /\ Returned("get_region_multiplier") => ret = RegionStep(request.regions)
    /\ Returned("get_user_multiplier") => ret = UserStep(request.users)
    /\ Returned("get_availability_multiplier") => ret \in {10, 12, 14, 17, 25}
    /\ ( /\ Returned("calculate_component_cost")
         /\ request.component_id \in CatalogIds
         /\ ~IsFreeCatalogId(request.component_id) )
       => LET base == CatalogEntry(request.component_id).base_cost
              sc   == request.scope
              full == base * UserStep(sc.users) * TrafficStep(sc.trafficLevel)
                           * RegionStep(sc.regions) * AvailabilityStep(sc.availability)
          IN  ret.scaled_cost \in
                  { RoundHalfEven(full + sc.dataVolumeGB * 230, 100),
                    RoundHalfEven(full, 100),
                    RoundHalfEven(base * RegionStep(sc.regions)
                                       * AvailabilityStep(sc.availability) * 100, 100),
                    RoundHalfEven(base * UserStep(sc.users)
                                       * TrafficStep(sc.trafficLevel) * 100, 100) }
    /\ CostReturned =>
           /\ costEstimate.total \in Int
           /\ Len(costEstimate.breakdown) = Cardinality(Resolving(request.component_ids))
    /\ Returned("generate_architecture_from_components") =>
           Len(nodes) = Cardinality(Resolving(request.component_ids))

C16_Witness ==
    /\ Returned("calculate_component_cost")
    /\ request.component_id = "kong"
    /\ request.scope.trafficLevel = 6
    /\ request.scope.regions = -1
    /\ request.scope.users = -3
    /\ ret = [base_cost |-> 5000, scaled_cost |-> 25000]


\* the sum of the reported energy_kwh of a breakdown, in 1/10000 kWh
RECURSIVE SumEnergyKwh(_)
SumEnergyKwh(breakdown) ==
    IF breakdown = <<>> THEN 0
    ELSE Head(breakdown).energy_kwh + SumEnergyKwh(Tail(breakdown))

\* the sum of the reported carbon_kg of a breakdown, in 1/10000 kg
RECURSIVE SumCarbonKg(_)
SumCarbonKg(breakdown) ==
    IF breakdown = <<>> THEN 0
    ELSE Head(breakdown).carbon_kg + SumCarbonKg(Tail(breakdown))

Abs(n) == IF n < 0 THEN -n ELSE n

\* a total of n entries differs from the sum of the entries by at most the
\* roundings made: half a unit of the 4th decimal for each entry and for the
\* total
WithinRounding(total, sum, n) == 2 * Abs(total - sum) <= n + 1

\* C18: in every carbon report the energy_kwh and carbon_kg totals equal the
\* sums of the reported per-component energy_kwh and carbon_kg (each rounded to
\* 4 decimals) to within rounding tolerance: half a unit of the 4th decimal
\* for each rounding made.
C18_TotalsMatchBreakdown ==
    Returned("generate_report") =>
        LET bd == report.component_breakdown
        IN  /\ WithinRounding(report.metrics.energy_kwh, SumEnergyKwh(bd), Len(bd))
            /\ WithinRounding(report.metrics.carbon_kg, SumCarbonKg(bd), Len(bd))

C18_Witness ==
    /\ Returned("generate_report")
    /\ Len(report.component_breakdown) = MaxNodes
    /\ report.metrics.carbon_kg > 0
    /\ report.metrics.carbon_kg # SumCarbonKg(report.component_breakdown)


\* nodes without their generated identifiers
Unlabelled(ns) ==
    [i \in 1..Len(ns) |-> [position |-> ns[i].position, data |-> ns[i].data]]

\* the place in ns of the node an edge end names
PlaceOfId(ns, id) == CHOOSE i \in 1..Len(ns) : ns[i].id = id

\* edges without their generated identifiers: ends as places in the node list
EdgeShapes(ns, es) ==
    [k \in 1..Len(es) |->
        [source       |-> PlaceOfId(ns, es[k].source),
         target       |-> PlaceOfId(ns, es[k].target),
         sourceHandle |-> es[k].sourceHandle,
         targetHandle |-> es[k].targetHandle]]

\* what a returned task holds is what its call gives when run alone
SameAsAlone(task) ==
    LET r == task.request
    IN  CASE r.fn = "generate_architecture_from_components" ->
                 LET alone == GenerateNodes(r.component_ids)
                 IN  /\ Unlabelled(task.nodes) = Unlabelled(alone)
                     /\ \E orders \in EdgeOrders(alone, 1) :
                            EdgeShapes(task.nodes, task.edges)
                                = EdgeShapes(alone, generate_edges(alone, orders))
                     /\ task.costEstimate
                            = calculate_architecture_cost(r.component_ids, r.scope)
          [] r.fn = "calculate_architecture_cost" ->
                 task.costEstimate = calculate_architecture_cost(r.component_ids, r.scope)
          [] r.fn = "calculate_component_cost" ->
                 task.ret = calculate_component_cost(r.component_id, r.scope)
          [] r.fn = "ConnectionValidator" ->
                 task.ret = [is_valid_connection |->
                                 is_valid_connection(r.source_category, r.target_category),
                             get_valid_targets |-> get_valid_targets(r.source_category),
                             get_valid_sources |-> get_valid_sources(r.target_category)]

\* C17: generate, the cost functions and the Connection Rules queries never
\* modify the catalog or the rule set, and under every interleaving of
\* concurrent calls each call returns the positions, edges (up to generated
\* identifiers) and costs it returns when run alone.
C17_ConcurrentCallsIndependent ==
    /\ catalog = COMPONENTS
    /\ rules = VALID_CONNECTIONS
    /\ \A t \in DOMAIN tasks : tasks[t].pc = "returned" => SameAsAlone(tasks[t])

C17_Witness ==
    /\ DOMAIN tasks = Tasks
    /\ \A t \in Tasks : tasks[t].pc = "returned"
    /\ tasks[1].request.fn = "generate_architecture_from_components"
    /\ tasks[2].request.fn = "generate_architecture_from_components"
    /\ tasks[1].request.component_ids = <<"nextjs", "fastapi", "postgresql">>
    /\ tasks[2].request.component_ids = <<"django", "fastapi">>
    /\ tasks[2].nodes[1].id.suffix < tasks[1].nodes[1].id.suffix
    /\ tasks[1].edges[1].id.suffix < tasks[2].edges[1].id.suffix


\* a vote_on_entry call that has returned its RegistryEntry
VoteReturned(c) == calls[c].fn = "vote" /\ calls[c].pc = "returned"

\* C19: whenever a vote brings the approve count of an entry that is still
\* pending to 5 or more, the status is 'verified' when that vote_on_entry call
\* returns, and whenever it brings the reject count to 5 or more the status
\* is 'rejected' when the call returns, under every interleaving of votes by
\* distinct voters.
C19_AutoResolve ==
    \A c \in DOMAIN calls :
        (VoteReturned(c) /\ calls[c].counted # None) =>
            /\ ( /\ calls[c].vote = "approve"
                 /\ calls[c].counted.status = "pending"
                 /\ calls[c].counted.votes_for >= 5 )
               => calls[c].result.status = "verified"
            /\ ( /\ calls[c].vote = "reject"
                 /\ calls[c].counted.status = "pending"
                 /\ calls[c].counted.votes_against >= 5 )
               => calls[c].result.status = "rejected"

\* C20: verify_entry_on_chain writes on_chain_hash / on_chain_tx only to an
\* entry whose status is 'verified': every entry had status 'verified' when
\* its hash was written.
C20_OnlyVerifiedOnChain ==
    \A c \in DOMAIN calls :
        (calls[c].fn = "verify" /\ calls[c].written # "none")
            => calls[c].written = "verified"


\* C27: a generated graph contains no self-loop: no edge produced by generate
\* has its source equal to its target, also when the graph holds nodes of a
\* category the rules allow to connect to itself (backend to backend).
C27_NoSelfLoop ==
    Returned("generate_architecture_from_components") =>
        \A k \in 1..Len(edges) : edges[k].source # edges[k].target

\* the breakdown entries of a component id and category
EntriesOf(id, category) ==
    { i \in 1..Len(costEstimate.breakdown) :
        /\ costEstimate.breakdown[i].componentId = id
        /\ costEstimate.breakdown[i].category = category }

\* the nodes of a component id and category
NodesOf(id, category) ==
    { j \in 1..Len(nodes) :
        /\ nodes[j].data.componentId = id
        /\ nodes[j].data.category = category }

\* C28: the cost estimate of a generated graph matches its nodes one to one:
\* for every input list (unknown and repeated ids included) there are as many
\* breakdown entries as nodes, and for each component id as many breakdown
\* entries with that componentId as nodes with that componentId and the same
\* category.
C28_BreakdownMatchesNodes ==
    Returned("generate_architecture_from_components") =>
        /\ Len(costEstimate.breakdown) = Len(nodes)
        /\ \A i \in 1..Len(request.component_ids), category \in Categories :
               Cardinality(EntriesOf(request.component_ids[i], category))
                   = Cardinality(NodesOf(request.component_ids[i], category))
        /\ \A i \in 1..Len(costEstimate.breakdown) :
               NodesOf(costEstimate.breakdown[i].componentId,
                       costEstimate.breakdown[i].category) # {}

C28_Witness ==
    /\ Returned("generate_architecture_from_components")
    /\ request.component_ids = <<"nextjs", "no_such_component", "nextjs">>
    /\ Len(nodes) = 2
    /\ Len(costEstimate.breakdown) = 2

\* the catalog's AI/ML components
AiMlCatalogIds == { COMPONENTS[i].id : i \in { j \in 1..Len(COMPONENTS) :
                                                COMPONENTS[j].category = "ai_ml" } }

\* the node is an ML node: of category ml, or the node generate creates for
\* an AI/ML component of the catalog
IsMlNode(node) ==
    \/ node.data.category = "ml"
    \/ /\ node.data.componentId \in AiMlCatalogIds
       /\ node.data = create_node_from_component(
                          node.data.componentId, calculate_node_position(0, 0), 1).data

\* the scaled power C24 states for a node, in 1/36 W
C24_Expected36(node, sc) ==
    (IF IsMlNode(node) THEN 300 ELSE PowerDraw(node.data.category))
      * Max2(2 * sc.trafficLevel, 3)
      * Max2(Log10(sc.users + 1), 1)
      * (IF IsMlNode(node) THEN sc.trafficLevel ELSE 3)

\* C24: in a carbon report a node's base power draw is the table value of its
\* category (300 W for ML, 30 W only for categories the table does not list)
\* and the scaled power of an ML node is multiplied a second time by
\* trafficMul; the ML rule applies to the nodes generate creates for the
\* catalog's AI/ML components (openai, gemini, anthropic, huggingface,
\* aws_sagemaker).
C24_MlPowerRule ==
    Returned("generate_report") =>
        \A i \in 1..Len(report.component_breakdown) :
            report.component_breakdown[i].power_draw_watts
                = RoundHalfEven(
                      C24_Expected36(request.architecture_json.nodes[i],
                                     request.architecture_json.scope) * 100, 36)


\* the vote records stored for an entry
VoteRecords(entry_id) == { v \in votes : v.entry_id = entry_id }

\* no vote is between its record and its count
VotesSettled == \A c \in Slots : ~(calls[c].fn = "vote" /\ calls[c].pc = "inc")

\* C23: each voter is counted at most once per entry: after any interleaving
\* of vote_on_entry calls, once every recorded vote is counted, the votes
\* counted for the entry since its submission (votes_for + votes_against)
\* equal the number of vote records stored for it and the number of distinct
\* voters that voted on it.
C23_VoterCountedOnce ==
    (SubmittedId \in DOMAIN registry /\ VotesSettled) =>
        LET doc == registry[SubmittedId]
            records == VoteRecords(SubmittedId)
        IN  /\ doc.votes_for + doc.votes_against = Cardinality(records)
            /\ Cardinality(records) = Cardinality({ v.voter_id : v \in records })


\* the reduction of the request in percent is pct (previous_carbon_kg > 0)
ReductionIs(pct) ==
    /\ request.previous_carbon_kg # << >>
    /\ request.previous_carbon_kg[1] > 0
    /\ (request.previous_carbon_kg[1] - request.current_carbon_kg) * 100
           = pct * request.previous_carbon_kg[1]

\* the reduction of the request is 50% or more
ReductionAtLeastHalf ==
    /\ request.previous_carbon_kg # << >>
    /\ request.previous_carbon_kg[1] > 0
    /\ (request.previous_carbon_kg[1] - request.current_carbon_kg) * 2
           >= request.previous_carbon_kg[1]

\* C25: the score is the base 15 plus a reduction part plus the region part
\* (at most 25), capped at 100, where the reduction part is never more than
\* 60 and is 20 points for a 10% reduction, 40 points for 25% and 60 points
\* for 50% or more. Points are in tenths.
C25_ScoreScale ==
    Returned("calculate_sustainability_score") =>
        \E part \in 0..600 :
            /\ ret.score = Min({1000, 150 + part
                                   + 10 * RegionScore(RegionIntensity(request.region))})
            /\ ReductionIs(10) => part = 200
            /\ ReductionIs(25) => part = 400
            /\ ReductionAtLeastHalf => part = 600


\* a token claim past its test of the amount, or answered
TokenClaimAt(c, places) == claims[c].fn = "tokens" /\ claims[c].pc \in places

\* C21: green points are never overspent: a user's total_points is never
\* negative, whatever the interleaving of awards and token claims, and a
\* claim_tokens for more than the total_points it reads is refused without
\* deducting.
C21_NeverOverspent ==
    /\ \A u \in DOMAIN green_users : green_users[u].total_points >= 0
    /\ \A c \in Slots :
           (TokenClaimAt(c, {"deduct", "record", "returned"})
              /\ claims[c].amount > claims[c].total)
               => (claims[c].pc = "returned" /\ ~claims[c].result.success)

\* the tokens of the token_claim transactions recorded
RECURSIVE ClaimedTokens(_)
ClaimedTokens(S) ==
    IF S = {} THEN 0
    ELSE LET d == CHOOSE x \in S : TRUE
         IN  (IF d.category = "token_claim" THEN -d.points ELSE 0)
                 + ClaimedTokens(S \ {d})

\* C22: points are deducted and a token_claim transaction is recorded only
\* when the same amount of tokens was minted by a blockchain transaction: a
\* claim that has deducted its amount holds the hash of its mint transaction,
\* and the tokens of the recorded claims never exceed the tokens minted.
C22_ClaimOnlyWhenMinted ==
    /\ \A c \in Slots :
           (TokenClaimAt(c, {"record"})
              \/ (TokenClaimAt(c, {"returned"}) /\ claims[c].result.success))
               => claims[c].tx_hash # None
    /\ ClaimedTokens(green_points) <= chain.minted

\* the user_badges records of a user and a badge
BadgeRecords(user_id, badge_id) ==
    { r \in user_badges : r.user_id = user_id /\ r.badge_id = badge_id }

\* C26: a user earns each badge at most once: after any interleaving of
\* direct badge claims and of the automatic awards of the score endpoint the
\* badge store holds at most one record per user and badge.
C26_BadgeOnce ==
    \A badge_id \in BadgeIds : Cardinality(BadgeRecords(UserId, badge_id)) <= 1

====
